---- MODULE Spec2Model ----
(***************************************************************************)
(* A model of the Map Viewer implementations of palserver-map.             *)
(*                                                                         *)
(* The repository holds three alternate implementations of the Map Viewer  *)
(* component.  A behaviour of this model is the life of ONE component      *)
(* instance; the variable `variant` says which implementation it is:       *)
(*   "LG"  Leaflet, objects reconciled by composite key into per-type      *)
(*         layer groups, players cleared and redrawn                       *)
(*         (src/app/components/MapViewer.vue lines 1-408)                  *)
(*   "KP"  Leaflet, players reconciled by userId, objects cleared and      *)
(*         redrawn (src/app/components/MapViewer.vue lines 410-894)        *)
(*   "OSD" OpenSeadragon image viewer, all overlays cleared and redrawn    *)
(*         (src/unnamed/part_002 lines 1-261)                              *)
(*                                                                         *)
(* In one behaviour the parent changes one of the two data props:           *)
(* `feed` = "players" is a page that passes players only (as              *)
(* src/app/pages/index.vue does: mapObjects stays empty), `feed` =         *)
(* "mapObjects" is a server nobody is playing on (players stays empty),    *)
(* `feed` = "pointer" is an empty server whose map the user moves the      *)
(* pointer over, and `feed` = "outage" is a server with one dungeon whose  *)
(* players endpoint fails at times (the page of src/unnamed/part_002).     *)
(*                                                                         *)
(* Every JavaScript object the code creates through the display library    *)
(* (a marker, a layer group) is an integer identity.  A new object gets an *)
(* identity that no object referenced at the start of the running handler, *)
(* and no object created earlier in the same handler, has.                 *)
(***************************************************************************)
EXTENDS Integers, Sequences, FiniteSets, TLC

VARIABLES
  variant,              \* which implementation this instance is
  feed,                 \* which prop the parent changes during this life
  lifecycle,            \* Vue instance: "created", "mounted", "unmounted"
  pc,                   \* position of the async onMounted hook
  containerEl,          \* template ref of the map container
  leaflet,              \* shallowRef: the Leaflet library handle
  map,                  \* shallowRef: the Leaflet map
  playersLayer,         \* the players layer group (0: null)
  objectLayersByType,   \* LG: Map type -> layer group
  objectMarkerByKey,    \* LG: Map composite key -> {marker, type}
  playerMarkerByUserId, \* KP: Map userId -> marker
  objectMarkers,        \* KP: array of object markers
  playerMarkers,        \* KP: array of player markers (nothing reads its order: its elements)
  layerGroups,          \* Leaflet: layer group -> the layers it holds
  mapLayers,            \* Leaflet: the layers on the map (map._layers)
  markerAttrs,          \* Leaflet: marker -> position, options.title, source entity
  activeTypes,          \* ref: the Active-Type Set
  mapObjects,           \* props.mapObjects
  players,              \* props.players
  osdLib,               \* OSD: shallowRef, the OpenSeadragon library handle
  viewer,               \* OSD: shallowRef, the viewer
  viewerSource,         \* OSD: viewer.source is set once the image is open
  openHandler,          \* OSD: the once-handler of 'open' is registered
  isReady,              \* OSD: ref
  mouseTracker,         \* OSD: "none", "tracking", "destroyed"
  overlays,             \* OSD: the overlays of the viewer, in drawing order
  ops,                  \* marker operations (create, update, delete) of the last handler
  lastOp,               \* the handler that ran last
  thrown,               \* the handler that ran last raised an error
  coordsDisplay,        \* ref: the pointer readout
  errorMessage,         \* page: ref, the banner's message
  coordArg,             \* coordinate functions: the argument of an evaluation
  coordResult,          \* coordinate functions: its result
  endpoint,             \* server: the endpoint the requests of this behaviour go to
  file,                 \* server: map_objects.json, its mtime and content
  cachedObjects,        \* server: module variable of objects.get.ts
  cachedMtimeMs,        \* server: module variable of objects.get.ts
  requests,             \* server: the requests in flight, each at an await
  response,             \* server: the last answer of GET /api/map/objects
  mtimesSeen,           \* server: the mtimes the file has had (0: one of them twice)
  unobserved,           \* server: no stat has seen the file since it was modified
  config,               \* server: runtimeConfig.palworld
  upstreamContacted,    \* server: a request was sent to the Palworld REST API
  infoResponse,         \* server: the last answer of GET /api/palworld/info
  timer,                \* page: the poll interval: "none", "running", "cleared"
  inflight,             \* page: per endpoint, the $fetch calls under way
  lastToastMessage,     \* page: module variable of the toast watcher
  toast,                \* page: the notification the last step added, if any
  sent,                 \* page: per endpoint, the HTTP requests the last step sent
  resolved,             \* page: the $fetch call that settled in the last step
  outcome,              \* page: per endpoint, how the fetch of the latest tick ended
  twin                  \* the two object reconcilers side by side

\* The variables of the component instance, and those of the other parts.
componentVars ==
  << variant, feed, lifecycle, pc, containerEl, leaflet, map, playersLayer,
     objectLayersByType, objectMarkerByKey, playerMarkerByUserId,
     objectMarkers, playerMarkers, layerGroups, mapLayers, markerAttrs,
     activeTypes, mapObjects, players, osdLib, viewer, viewerSource,
     openHandler, isReady, mouseTracker, overlays, ops, lastOp, thrown,
     coordsDisplay, errorMessage >>

coordVars == << coordArg, coordResult >>

serverVars ==
  << endpoint, file, cachedObjects, cachedMtimeMs, requests, response,
     mtimesSeen, unobserved, config, upstreamContacted, infoResponse >>

pageVars == << timer, inflight, lastToastMessage, toast, sent, resolved, outcome >>

outsideVars == << coordVars, serverVars, pageVars, twin >>

vars == << componentVars, outsideVars >>

-----------------------------------------------------------------------------
(* Bounds of the model *)

MaxObjects == 2         \* longest mapObjects snapshot
MaxPlayers == 2         \* longest players snapshot
MaxPlayerMarkers == 4   \* most player markers that exist at a time

-----------------------------------------------------------------------------
(* Values *)

NULL == "null"
NoLayer == 0
NoOps == [creates |-> 0, updates |-> 0, deletes |-> 0]
EmptyMap == << >>            \* a Map (or array) with no entry

Variants == {"LG", "KP", "OSD"}
Feeds == {"players", "mapObjects", "pointer", "outage"}

\* Map objects of the feed.  An absent optional field is the empty string:
\* the code reads both through `field || ''`.
ObjectPool ==
  { [type |-> "pal",     x |-> 100,  y |-> 200,  pal |-> "Lamball", localized_name |-> ""],
    [type |-> "pal",     x |-> 1000, y |-> 2000, pal |-> "Lamball", localized_name |-> ""],
    [type |-> "dungeon", x |-> 100,  y |-> 200,  pal |-> "",        localized_name |-> "Cave"] }

\* Players of the feed: u1 at two positions (two cells of the map grid), and u2.
PlayerPool ==
  { [userId |-> "u1", name |-> "Ann", level |-> 5, location_x |-> 100,  location_y |-> 200],
    [userId |-> "u1", name |-> "Ann", level |-> 5, location_x |-> 5000, location_y |-> 7000],
    [userId |-> "u2", name |-> "Bob", level |-> 7, location_x |-> 1000, location_y |-> 2000] }

SeqsUpTo(S, n) == UNION { [1..k -> S] : k \in 0..n }

\* The snapshots the parent passes.
ObjectSnapshots == SeqsUpTo(ObjectPool, MaxObjects)
PlayerSnapshots == SeqsUpTo(PlayerPool, MaxPlayers)

\* Identities: layer groups, object markers, player markers.  The object
\* markers are enough for those live before a handler and those it creates.
GroupIds == 1..(1 + Cardinality({o.type : o \in ObjectPool}))
ObjectMarkerIds == 11..(10 + 2 * MaxObjects)
PlayerMarkerIds == 21..(20 + MaxPlayerMarkers)

Range(f) == { f[k] : k \in DOMAIN f }
Put(f, k, val) == [z \in (DOMAIN f) \cup {k} |-> IF z = k THEN val ELSE f[z]]
Restrict(f, S) ==
  IF (DOMAIN f) \cap S = {} THEN EmptyMap ELSE [z \in (DOMAIN f) \cap S |-> f[z]]
Del(f, k) == Restrict(f, (DOMAIN f) \ {k})

-----------------------------------------------------------------------------
(* Coordinate transform of the Leaflet implementations *)

TRANSLATION_X == 123930
TRANSLATION_Y == 157935
SCALE == 459
MAP_SIZE == 8192
GAME_MIN_X == -1951
GAME_MIN_Y == -1893
GAME_MAX_X == 1198
GAME_MAX_Y == 1243
ORIGIN_GAME_X == 0
ORIGIN_GAME_Y == 0
MAP_WIDTH == GAME_MAX_X - GAME_MIN_X
MAP_HEIGHT == GAME_MAX_Y - GAME_MIN_Y

\* Math.round of the rational p/q (q > 0): the nearest integer, halves up.
MathRound(p, q) == (2 * p + q) \div (2 * q)

worldToMap(worldX, worldY) ==
  [x |-> MathRound(worldY - TRANSLATION_Y, SCALE),
   y |-> MathRound(worldX + TRANSLATION_X, SCALE) * (-1)]

mapToWorld(mapX, mapY) ==
  [x |-> mapY * (-1) * SCALE - TRANSLATION_X,
   y |-> mapX * SCALE + TRANSLATION_Y]

\* TRANSFORM_A = MAP_SIZE / MAP_WIDTH, TRANSFORM_B = 5075.45 = 101509/20,
\* TRANSFORM_C = -MAP_SIZE / MAP_HEIGHT, TRANSFORM_D = 4960.62 = 248031/50.
\* A LatLng is kept exactly, as the numerators of lng over LNG_DEN and of
\* lat over LAT_DEN.
LNG_DEN == MAP_WIDTH * 20
LAT_DEN == MAP_HEIGHT * 50

worldToLeaflet(worldX, worldY) ==
  LET mapCoords == worldToMap(worldX, worldY)
  IN  [lat |-> (-MAP_SIZE) * 50 * mapCoords.y + 248031 * MAP_HEIGHT,
       lng |-> MAP_SIZE * 20 * mapCoords.x + 101509 * MAP_WIDTH]

-----------------------------------------------------------------------------
(* Coordinates that are not integers *)

\* A number the code computes from a pointer position or by a division is a
\* rational in lowest terms, [n |-> numerator, d |-> denominator > 0].
Abs(k) == IF k < 0 THEN -k ELSE k

RECURSIVE Gcd(_, _)
Gcd(a, b) == IF b = 0 THEN a ELSE Gcd(b, a % b)

Rat(n, d) ==
  LET g == Gcd(Abs(n), Abs(d))
      s == IF d < 0 THEN -1 ELSE 1
  IN  [n |-> s * (n \div g), d |-> s * (d \div g)]

RatOfInt(k) == [n |-> k, d |-> 1]
RatPlusInt(r, k) == [n |-> r.n + k * r.d, d |-> r.d]
RatTimesInt(r, k) ==
  LET g == Gcd(Abs(k), r.d) IN Rat(r.n * (k \div g), r.d \div g)
RatOverInt(r, k) ==
  LET g == Gcd(Abs(r.n), Abs(k)) IN Rat(r.n \div g, r.d * (k \div g))
RatMinus(r, q) == Rat(r.n * q.d - q.n * r.d, r.d * q.d)
RatRound(r) == MathRound(r.n, r.d)

\* worldToMap and mapToWorld at arguments that need not be integers.
worldToMapQ(worldX, worldY) ==
  [x |-> RatRound(RatOverInt(RatPlusInt(worldY, -TRANSLATION_Y), SCALE)),
   y |-> RatRound(RatOverInt(RatPlusInt(worldX, TRANSLATION_X), SCALE)) * (-1)]

mapToWorldQ(mapX, mapY) ==
  [x |-> RatPlusInt(RatTimesInt(RatTimesInt(mapY, -1), SCALE), -TRANSLATION_X),
   y |-> RatPlusInt(RatTimesInt(mapX, SCALE), TRANSLATION_Y)]

worldToLeafletQ(worldX, worldY) ==
  LET mapCoords == worldToMapQ(worldX, worldY)
  IN  [lat |-> (-MAP_SIZE) * 50 * mapCoords.y + 248031 * MAP_HEIGHT,
       lng |-> MAP_SIZE * 20 * mapCoords.x + 101509 * MAP_WIDTH]

\* (lng - TRANSFORM_B) / TRANSFORM_A and (lat - TRANSFORM_D) / TRANSFORM_C,
\* then mapToWorld.
leafletToWorld_Unscaled(latlng) ==
  LET gameX == Rat(latlng.lng - 101509 * MAP_WIDTH, 20 * MAP_SIZE)
      gameY == Rat(latlng.lat - 248031 * MAP_HEIGHT, (-50) * MAP_SIZE)
  IN  [worldX |-> gameY, worldY |-> gameX]

leafletToWorld(latlng) ==
  LET gameX == Rat(latlng.lng - 101509 * MAP_WIDTH, 20 * MAP_SIZE)
      gameY == Rat(latlng.lat - 248031 * MAP_HEIGHT, (-50) * MAP_SIZE)
      worldCoords == mapToWorldQ(gameX, gameY)
  IN  [worldX |-> worldCoords.x, worldY |-> worldCoords.y]

-----------------------------------------------------------------------------
(* Coordinate mapping of the image viewer *)

\* ((xLoc + 1000) / 2000) * imageSize.x and ((1000 - yLoc) / 2000) * imageSize.y
toViewportCoords(xLoc, yLoc, imageSize) ==
  [x |-> RatTimesInt(RatOverInt(RatPlusInt(xLoc, 1000), 2000), imageSize.x),
   y |-> RatTimesInt(RatOverInt(RatPlusInt(RatTimesInt(yLoc, -1), 1000), 2000),
                     imageSize.y)]

\* The mapping of the move handler, before it rounds:
\* (x / imageSize.x) * 2000 - 1000, ((imageSize.y - y) / imageSize.y) * 2000 - 1000
pointerToLocal_NoFlip(viewportPoint, imageSize) ==
  [x |-> RatPlusInt(RatTimesInt(RatOverInt(viewportPoint.x, imageSize.x), 2000), -1000),
   y |-> RatPlusInt(RatTimesInt(RatOverInt(viewportPoint.y, imageSize.y), 2000), -1000)]

pointerToLocal(viewportPoint, imageSize) ==
  [x |-> RatPlusInt(RatTimesInt(RatOverInt(viewportPoint.x, imageSize.x), 2000), -1000),
   y |-> RatPlusInt(
           RatTimesInt(
             RatOverInt(RatPlusInt(RatTimesInt(viewportPoint.y, -1), imageSize.y),
                        imageSize.y),
             2000),
           -1000)]

-----------------------------------------------------------------------------
(* The pointer readout *)

\* The dimensions of the opened image, viewer.source.dimensions.
SourceDimensions == [x |-> MAP_SIZE, y |-> MAP_SIZE]

\* Pointer positions in image coordinates (the result of
\* viewport.windowToImageCoordinates): two corners and a point inside.
PointerPoints ==
  { [x |-> RatOfInt(0), y |-> RatOfInt(0)],
    [x |-> RatOfInt(MAP_SIZE), y |-> RatOfInt(MAP_SIZE)],
    [x |-> Rat(MAP_SIZE, 3), y |-> Rat(MAP_SIZE, 2)] }

\* Pointer positions of the Leaflet map: on a grid point, and beside one.
PointerLatLngs ==
  { worldToLeaflet(100, 200),
    worldToLeaflet(5000, 7000),
    [lat |-> worldToLeaflet(5000, 7000).lat + LAT_DEN,
     lng |-> worldToLeaflet(5000, 7000).lng + LNG_DEN] }

\* `${a},${b}`
Readout(a, b) == ToString(a) \o "," \o ToString(b)

\* The two numbers of the popup's line
\* `Map Coords: ${mapCoords.x}, ${mapCoords.y * -1}` for a player at (x, y).
popupMapCoords(worldX, worldY) ==
  LET mapCoords == worldToMapQ(worldX, worldY)
  IN  [x |-> mapCoords.x, y |-> mapCoords.y * (-1)]

\* A handler that shows the grid's own y (mutant of onMouseMove).
onMouseMove_NoFlip(v, latlng) ==
  LET world == leafletToWorld(latlng)
      game == worldToMapQ(world.worldX, world.worldY)
  IN  [v |-> v, coordsDisplay |-> Readout(game.x, game.y)]

\* m.on('mousemove', ...) of the Leaflet implementations
onMouseMove(v, latlng) ==
  LET world == leafletToWorld(latlng)
      game == worldToMapQ(world.worldX, world.worldY)
  IN  [v |-> v, coordsDisplay |-> Readout(game.x, game.y * (-1))]

\* moveHandler of the mouse tracker.  `viewer.value.source.dimensions` is a
\* TypeError while viewer.source is null, which it is until 'open'.
moveHandler(v, display, viewportPoint) ==
  IF v.viewerSource = NULL THEN [v |-> [v EXCEPT !.thrown = TRUE], coordsDisplay |-> display]
  ELSE
    LET mapped == pointerToLocal(viewportPoint, SourceDimensions)
    IN  [v |-> v, coordsDisplay |-> Readout(RatRound(mapped.x), RatRound(mapped.y))]

-----------------------------------------------------------------------------
(* The instance's state as one record, which the handlers transform *)

\* Every identity some field of the state refers to.
LiveIdsOf(v) ==
  ({v.playersLayer} \ {NoLayer})
    \cup Range(v.objectLayersByType)
    \cup { e.marker : e \in Range(v.objectMarkerByKey) }
    \cup Range(v.playerMarkerByUserId)
    \cup Range(v.objectMarkers)
    \cup v.playerMarkers
    \cup (DOMAIN v.layerGroups)
    \cup UNION Range(v.layerGroups)
    \cup v.mapLayers

View ==
  LET v == [ leaflet |-> leaflet, map |-> map, containerEl |-> containerEl,
             playersLayer |-> playersLayer,
             objectLayersByType |-> objectLayersByType,
             objectMarkerByKey |-> objectMarkerByKey,
             playerMarkerByUserId |-> playerMarkerByUserId,
             objectMarkers |-> objectMarkers, playerMarkers |-> playerMarkers,
             layerGroups |-> layerGroups, mapLayers |-> mapLayers,
             markerAttrs |-> markerAttrs, activeTypes |-> activeTypes,
             mapObjects |-> mapObjects, players |-> players,
             osdLib |-> osdLib, viewer |-> viewer, viewerSource |-> viewerSource,
             openHandler |-> openHandler, isReady |-> isReady,
             mouseTracker |-> mouseTracker, overlays |-> overlays,
             ops |-> NoOps, thrown |-> FALSE, used |-> {} ]
  IN  [v EXCEPT !.used = LiveIdsOf(v)]

\* Objects nothing refers to any more are gone: a layer group that neither a
\* variable nor the map holds, the attributes of a marker nothing holds.
Collected(v) ==
  LET groups == (({v.playersLayer} \ {NoLayer}) \cup Range(v.objectLayersByType)
                   \cup v.mapLayers) \cap DOMAIN v.layerGroups
      v1 == [v EXCEPT !.layerGroups = Restrict(@, groups)]
  IN  [v1 EXCEPT !.markerAttrs = Restrict(@, LiveIdsOf(v1))]

\* The state after a handler: v is the handler's result, computed once.
Apply(w, op) ==
  \E v \in {Collected(w)} :
      /\ leaflet' = v.leaflet
      /\ map' = v.map
      /\ containerEl' = v.containerEl
      /\ playersLayer' = v.playersLayer
      /\ objectLayersByType' = v.objectLayersByType
      /\ objectMarkerByKey' = v.objectMarkerByKey
      /\ playerMarkerByUserId' = v.playerMarkerByUserId
      /\ objectMarkers' = v.objectMarkers
      /\ playerMarkers' = v.playerMarkers
      /\ layerGroups' = v.layerGroups
      /\ mapLayers' = v.mapLayers
      /\ markerAttrs' = v.markerAttrs
      /\ activeTypes' = v.activeTypes
      /\ mapObjects' = v.mapObjects
      /\ players' = v.players
      /\ osdLib' = v.osdLib
      /\ viewer' = v.viewer
      /\ viewerSource' = v.viewerSource
      /\ openHandler' = v.openHandler
      /\ isReady' = v.isReady
      /\ mouseTracker' = v.mouseTracker
      /\ overlays' = v.overlays
      /\ ops' = v.ops
      /\ thrown' = v.thrown
      /\ lastOp' = op

-----------------------------------------------------------------------------
(* Leaflet: the library calls the code makes *)

\* An exception leaves the handler: the statements after it do not run.
Throw(v) == [v EXCEPT !.thrown = TRUE]
Then(v, next) == IF v.thrown THEN v ELSE next

FreshId(v, pool) == CHOOSE i \in pool \ v.used : \A j \in pool \ v.used : i <= j

\* The handler can create n more player markers.
HasPlayerIds(v, n) == Cardinality(PlayerMarkerIds \ v.used) >= n

\* L.marker(latlng, {icon, title}): a new marker, on no map and in no group.
NewMarker(v, id, latlng, title, source) ==
  [v EXCEPT !.used = @ \cup {id},
            !.markerAttrs = Put(@, id, [latlng |-> latlng, title |-> title, source |-> source])]

\* L.layerGroup(): a new, empty layer group.
NewLayerGroup(v, id) ==
  [v EXCEPT !.used = @ \cup {id}, !.layerGroups = Put(@, id, {})]

\* map.hasLayer(layer)
MapHasLayer(v, id) == id \in v.mapLayers

\* map.addLayer(layer), layer.addTo(map): a layer group brings its layers.
MapAddLayer(v, id) ==
  IF id \in v.mapLayers THEN v
  ELSE [v EXCEPT !.mapLayers = @ \cup {id}
                   \cup (IF id \in DOMAIN v.layerGroups THEN v.layerGroups[id] ELSE {})]

\* map.removeLayer(layer), layer.removeFrom(map), layer.remove(): a layer
\* group takes its layers with it.
MapRemoveLayer(v, id) ==
  IF id \notin v.mapLayers THEN v
  ELSE [v EXCEPT !.mapLayers = @ \ ({id}
                   \cup (IF id \in DOMAIN v.layerGroups THEN v.layerGroups[id] ELSE {}))]

\* group.addLayer(layer), layer.addTo(group)
GroupAddLayer(v, g, id) ==
  LET v1 == [v EXCEPT !.layerGroups[g] = @ \cup {id}]
  IN  IF g \in v.mapLayers THEN MapAddLayer(v1, id) ELSE v1

\* group.removeLayer(layer)
GroupRemoveLayer(v, g, id) ==
  LET v1 == IF g \in v.mapLayers /\ id \in v.layerGroups[g]
            THEN MapRemoveLayer(v, id) ELSE v
  IN  [v1 EXCEPT !.layerGroups[g] = @ \ {id}]

\* group.clearLayers()
GroupClearLayers(v, g) ==
  LET v1 == IF g \in v.mapLayers
            THEN [v EXCEPT !.mapLayers = @ \ v.layerGroups[g]] ELSE v
  IN  [v1 EXCEPT !.layerGroups[g] = {}]

\* map.remove(): every layer leaves the destroyed map.
MapRemove(v) == [v EXCEPT !.mapLayers = {}]

-----------------------------------------------------------------------------
(* Shared by the three implementations *)

TypesOf(objects) == { objects[i].type : i \in DOMAIN objects }

\* availableTypes: the categories the filter check boxes are rendered for.
availableTypes(v) == TypesOf(v.mapObjects)

toggleType(v, type, checked) ==
  [v EXCEPT !.activeTypes = IF checked THEN @ \cup {type} ELSE @ \ {type}]

\* A recomputation that enables every observed category on every update
\* (mutant of RecomputeActiveTypes).
RecomputeActiveTypes_AllObserved(active, objects) == TypesOf(objects)

\* The first statements of the watcher of props.mapObjects.
RecomputeActiveTypes(active, objects) ==
  LET types == TypesOf(objects)
  IN  IF active = {} /\ types # {} THEN types
      ELSE { type \in active : type \in types }

ToStr(n) == ToString(n)

\* A key that leaves the position out (mutant of getMapObjectKey).
getMapObjectKey_NoPosition(mapObject) ==
  mapObject.type \o ":" \o mapObject.pal \o ":" \o mapObject.localized_name

\* `${type}:${x}:${y}:${pal || ''}:${localized_name || ''}`
getMapObjectKey(mapObject) ==
  mapObject.type \o ":" \o ToStr(mapObject.x) \o ":" \o ToStr(mapObject.y)
    \o ":" \o mapObject.pal \o ":" \o mapObject.localized_name

-----------------------------------------------------------------------------
(* Implementation "LG": src/app/components/MapViewer.vue lines 1-408 *)

\* ensureObjectLayer(type): the layer group of the type, created on first
\* use, with the current visibility applied to it; null without library or map.
ensureObjectLayer(v, type) ==
  IF v.leaflet = NULL \/ v.map = NULL THEN [v |-> v, group |-> NoLayer]
  ELSE
    LET v1 == IF type \in DOMAIN v.objectLayersByType THEN v
              ELSE LET created == FreshId(v, GroupIds)
                   IN  [NewLayerGroup(v, created) EXCEPT
                          !.objectLayersByType = Put(@, type, created)]
        group == v1.objectLayersByType[type]
        shouldShow == type \in v1.activeTypes
        onMap == MapHasLayer(v1, group)
        v2 == IF shouldShow /\ ~onMap THEN MapAddLayer(v1, group) ELSE v1
        v3 == IF ~shouldShow /\ onMap THEN MapRemoveLayer(v2, group) ELSE v2
    IN  [v |-> v3, group |-> group]

RECURSIVE VisibilityLoop_LG(_, _)
VisibilityLoop_LG(v, types) ==
  IF types = {} THEN v
  ELSE LET type == CHOOSE t \in types : TRUE
           group == v.objectLayersByType[type]
           shouldShow == type \in v.activeTypes
           onMap == MapHasLayer(v, group)
           v1 == IF shouldShow /\ ~onMap THEN MapAddLayer(v, group) ELSE v
           v2 == IF ~shouldShow /\ onMap THEN MapRemoveLayer(v1, group) ELSE v1
       IN  VisibilityLoop_LG(v2, types \ {type})

\* A visibility pass that does nothing (mutant of updateObjectVisibility_LG).
updateObjectVisibility_Skipped(v) == v

updateObjectVisibility_LG(v) ==
  IF v.map = NULL THEN v
  ELSE VisibilityLoop_LG(v, DOMAIN v.objectLayersByType)

\* A first loop without the `if (objectMarkerByKey.has(key)) continue`: a new
\* marker for every object of the snapshot (mutant of SyncCreateLoop).
RECURSIVE SyncCreateLoop_Recreates(_, _)
SyncCreateLoop_Recreates(v, i) ==
  IF i > Len(v.mapObjects) THEN v
  ELSE
    LET item == v.mapObjects[i]
        key == getMapObjectKey(item)
        marker == FreshId(v, ObjectMarkerIds)
        v1 == NewMarker(v, marker, worldToLeaflet(item.x, item.y), "", item)
        e  == ensureObjectLayer(v1, item.type)
        v2 == IF e.group # NoLayer THEN GroupAddLayer(e.v, e.group, marker) ELSE e.v
        v3 == [v2 EXCEPT
                 !.objectMarkerByKey = Put(@, key, [marker |-> marker, type |-> item.type]),
                 !.ops.creates = @ + 1]
    IN  SyncCreateLoop_Recreates(v3, i + 1)

\* The first loop of syncMapObjectMarkers: a marker for every key that has none.
RECURSIVE SyncCreateLoop(_, _)
SyncCreateLoop(v, i) ==
  IF i > Len(v.mapObjects) THEN v
  ELSE
    LET item == v.mapObjects[i]
        key == getMapObjectKey(item)
    IN  IF key \in DOMAIN v.objectMarkerByKey THEN SyncCreateLoop(v, i + 1)
        ELSE IF v.leaflet = NULL THEN Throw(v)
        ELSE
          LET marker == FreshId(v, ObjectMarkerIds)
              v1 == NewMarker(v, marker, worldToLeaflet(item.x, item.y), "", item)
              e  == ensureObjectLayer(v1, item.type)
              v2 == IF e.group # NoLayer THEN GroupAddLayer(e.v, e.group, marker) ELSE e.v
              v3 == [v2 EXCEPT
                       !.objectMarkerByKey = Put(@, key, [marker |-> marker, type |-> item.type]),
                       !.ops.creates = @ + 1]
          IN  SyncCreateLoop(v3, i + 1)

\* A second loop that removes nothing (mutant of SyncRemoveLoop).
SyncRemoveLoop_KeepsStale(v, nextKeys, keys) == v

\* A second loop that forgets the stale entries and leaves their markers where
\* they are (mutant of SyncRemoveLoop).
SyncRemoveLoop_ForgetsOnly(v, nextKeys, keys) ==
  [v EXCEPT !.objectMarkerByKey = Restrict(@, nextKeys),
            !.ops.deletes = @ + Cardinality(keys \ nextKeys)]

\* The second loop: the markers whose key the snapshot no longer has.
RECURSIVE SyncRemoveLoop(_, _, _)
SyncRemoveLoop(v, nextKeys, keys) ==
  IF keys = {} THEN v
  ELSE
    LET key == CHOOSE k \in keys : TRUE
        entry == v.objectMarkerByKey[key]
    IN  IF key \in nextKeys THEN SyncRemoveLoop(v, nextKeys, keys \ {key})
        ELSE
          LET v1 == IF entry.type \in DOMAIN v.objectLayersByType
                    THEN GroupRemoveLayer(v, v.objectLayersByType[entry.type], entry.marker)
                    ELSE v
              v2 == MapRemoveLayer(v1, entry.marker)
              v3 == [v2 EXCEPT !.objectMarkerByKey = Del(@, key),
                               !.ops.deletes = @ + 1]
          IN  SyncRemoveLoop(v3, nextKeys, keys \ {key})

syncMapObjectMarkers(v) ==
  IF v.leaflet = NULL \/ v.map = NULL THEN v
  ELSE
    LET nextKeys == { getMapObjectKey(v.mapObjects[i]) : i \in DOMAIN v.mapObjects }
        v1 == SyncCreateLoop(v, 1)
        v2 == SyncRemoveLoop(v1, nextKeys, DOMAIN v1.objectMarkerByKey)
    IN  IF v1.thrown THEN v1 ELSE updateObjectVisibility_LG(v2)

RECURSIVE RedrawPlayersLoop_LG(_, _)
RedrawPlayersLoop_LG(v, i) ==
  IF i > Len(v.players) THEN v
  ELSE
    LET player == v.players[i]
        marker == FreshId(v, PlayerMarkerIds)
        v1 == NewMarker(v, marker, worldToLeaflet(player.location_x, player.location_y), "", player)
        v2 == GroupAddLayer(v1, v.playersLayer, marker)
    IN  IF v.leaflet = NULL THEN Throw(v)
        ELSE RedrawPlayersLoop_LG([v2 EXCEPT !.ops.creates = @ + 1], i + 1)

\* redrawPlayers of "LG": clear the players layer, one new marker per player.
redrawPlayers_LG(v) ==
  IF v.leaflet = NULL \/ v.map = NULL \/ v.playersLayer = NoLayer THEN v
  ELSE
    LET cleared == [GroupClearLayers(v, v.playersLayer) EXCEPT
                      !.ops.deletes = @ + Cardinality(v.layerGroups[v.playersLayer])]
    IN  RedrawPlayersLoop_LG(cleared, 1)

\* A continuation that does not look at the container (mutant of onMounted_LG).
onMounted_LG_NoContainerCheck(v) ==
  LET layer == FreshId(v, GroupIds)
      v2 == [v EXCEPT !.leaflet = "L", !.map = "map"]
  IN  [MapAddLayer(NewLayerGroup(v2, layer), layer) EXCEPT !.playersLayer = layer]

\* The continuation of onMounted after `await import('leaflet')`.
onMounted_LG(v) ==
  LET v1 == [v EXCEPT !.leaflet = "L"]
  IN  IF v1.containerEl = NULL THEN v1
      ELSE
        LET layer == FreshId(v1, GroupIds)
            v2 == [v1 EXCEPT !.map = "map"]
            v3 == MapAddLayer(NewLayerGroup(v2, layer), layer)
            v4 == [v3 EXCEPT !.playersLayer = layer]
        IN  Then(syncMapObjectMarkers(v4), redrawPlayers_LG(syncMapObjectMarkers(v4)))

\* watch(() => props.players)
watchPlayers_LG(v) == redrawPlayers_LG(v)

\* watch(() => props.mapObjects), followed by the watcher of activeTypes that
\* its assignment to activeTypes.value triggers.
watchMapObjects_LG(v) ==
  LET v1 == [v EXCEPT !.activeTypes = RecomputeActiveTypes(@, v.mapObjects)]
  IN  updateObjectVisibility_LG(syncMapObjectMarkers(v1))

\* watch(() => activeTypes.value)
watchActiveTypes_LG(v) == updateObjectVisibility_LG(v)

\* A teardown that only forgets the map, without `map.value.remove()`
\* (mutant of onBeforeUnmount_LG).
onBeforeUnmount_LG_NoRemove(v) ==
  [v EXCEPT !.map = NULL, !.playersLayer = NoLayer,
            !.objectLayersByType = EmptyMap]

onBeforeUnmount_LG(v) ==
  LET v1 == IF v.map # NULL THEN [MapRemove(v) EXCEPT !.map = NULL] ELSE v
  IN  [v1 EXCEPT !.playersLayer = NoLayer,
                 !.objectLayersByType = EmptyMap,
                 !.objectMarkerByKey = EmptyMap]

-----------------------------------------------------------------------------
(* Implementation "KP": src/app/components/MapViewer.vue lines 410-894 *)

RECURSIVE VisibilityLoop_KP(_, _)
VisibilityLoop_KP(v, i) ==
  IF i > Len(v.objectMarkers) THEN v
  ELSE LET marker == v.objectMarkers[i]
           type == v.markerAttrs[marker].title
           shouldShow == type # "" /\ type \in v.activeTypes
           onMap == MapHasLayer(v, marker)
           v1 == IF shouldShow /\ ~onMap THEN MapAddLayer(v, marker) ELSE v
           v2 == IF ~shouldShow /\ onMap THEN MapRemoveLayer(v1, marker) ELSE v1
       IN  VisibilityLoop_KP(v2, i + 1)

updateObjectVisibility_KP(v) ==
  IF v.map = NULL THEN v ELSE VisibilityLoop_KP(v, 1)

RECURSIVE RedrawObjectsClear(_, _)
RedrawObjectsClear(v, i) ==
  IF i > Len(v.objectMarkers) THEN v
  ELSE RedrawObjectsClear(
         [MapRemoveLayer(v, v.objectMarkers[i]) EXCEPT !.ops.deletes = @ + 1], i + 1)

RECURSIVE RedrawObjectsLoop(_, _)
RedrawObjectsLoop(v, i) ==
  IF i > Len(v.mapObjects) THEN v
  ELSE
    LET item == v.mapObjects[i]
        marker == FreshId(v, ObjectMarkerIds)
        v1 == NewMarker(v, marker, worldToLeaflet(item.x, item.y), item.type, item)
        v2 == IF item.type \in v.activeTypes THEN MapAddLayer(v1, marker) ELSE v1
    IN  IF v.leaflet = NULL THEN Throw(v)
        ELSE RedrawObjectsLoop(
               [v2 EXCEPT !.objectMarkers = Append(@, marker), !.ops.creates = @ + 1], i + 1)

redrawMapObjects(v) ==
  IF v.leaflet = NULL \/ v.map = NULL THEN v
  ELSE RedrawObjectsLoop([RedrawObjectsClear(v, 1) EXCEPT !.objectMarkers = << >>], 1)

\* The first loop of the keyed redrawPlayers: update in place, or create.
RECURSIVE RedrawPlayersLoop(_, _, _)
RedrawPlayersLoop(v, layer, i) ==
  IF i > Len(v.players) THEN v
  ELSE
    LET player == v.players[i]
        latlng == worldToLeaflet(player.location_x, player.location_y)
    IN  IF v.leaflet = NULL THEN Throw(v)
        ELSE IF player.userId \in DOMAIN v.playerMarkerByUserId
        THEN
          LET existing == v.playerMarkerByUserId[player.userId]
              v1 == [v EXCEPT !.markerAttrs[existing] =
                                [latlng |-> latlng, title |-> "", source |-> player],
                              !.ops.updates = @ + 1]
              v2 == IF MapHasLayer(v1, existing) THEN v1
                    ELSE IF layer = NoLayer THEN MapAddLayer(v1, existing)
                    ELSE GroupAddLayer(v1, layer, existing)
          IN  RedrawPlayersLoop(v2, layer, i + 1)
        ELSE
          LET marker == FreshId(v, PlayerMarkerIds)
              v1 == NewMarker(v, marker, latlng, "", player)
              v2 == IF layer = NoLayer THEN MapAddLayer(v1, marker)
                    ELSE GroupAddLayer(v1, layer, marker)
              v3 == [v2 EXCEPT !.playerMarkerByUserId = Put(@, player.userId, marker),
                               !.ops.creates = @ + 1]
          IN  RedrawPlayersLoop(v3, layer, i + 1)

\* The second loop: the markers of the players the snapshot no longer has.
RECURSIVE RedrawPlayersRemove(_, _, _)
RedrawPlayersRemove(v, nextUserIds, userIds) ==
  IF userIds = {} THEN v
  ELSE
    LET userId == CHOOSE u \in userIds : TRUE
        marker == v.playerMarkerByUserId[userId]
    IN  IF userId \in nextUserIds
        THEN RedrawPlayersRemove(v, nextUserIds, userIds \ {userId})
        ELSE
          LET v1 == IF MapHasLayer(v, marker) THEN MapRemoveLayer(v, marker) ELSE v
              v2 == [v1 EXCEPT !.playerMarkerByUserId = Del(@, userId),
                               !.ops.deletes = @ + 1]
          IN  RedrawPlayersRemove(v2, nextUserIds, userIds \ {userId})

redrawPlayers(v) ==
  IF v.leaflet = NULL \/ v.map = NULL THEN v
  ELSE
    LET layer == v.playersLayer      \* playersLayer.value ?? m: NoLayer stands for m
        nextUserIds == { v.players[i].userId : i \in DOMAIN v.players }
        v1 == RedrawPlayersLoop(v, layer, 1)
        v2 == RedrawPlayersRemove(v1, nextUserIds, DOMAIN v1.playerMarkerByUserId)
    IN  IF v1.thrown THEN v1
        ELSE [v2 EXCEPT !.playerMarkers = Range(v2.playerMarkerByUserId)]

\* A focusPlayer that does not return when there is no map (mutant of
\* focusPlayer).
focusPlayer_NoMapCheck(v, player) ==
  IF player.userId \in DOMAIN v.playerMarkerByUserId THEN v
  ELSE IF v.leaflet = NULL THEN Throw(v)
  ELSE v

\* The button of a player in the sidebar: the view flies to the player's
\* marker, or to worldToLeaflet of the player's position when there is none.
focusPlayer(v, player) ==
  IF v.map = NULL THEN v
  ELSE IF player.userId \in DOMAIN v.playerMarkerByUserId THEN v
  ELSE IF v.leaflet = NULL THEN Throw(v)
  ELSE v

\* The continuation of onMounted after `await import('leaflet')`.
onMounted_KP(v) ==
  LET v1 == [v EXCEPT !.leaflet = "L"]
  IN  IF v1.containerEl = NULL THEN v1
      ELSE
        LET layer == FreshId(v1, GroupIds)
            v2 == [v1 EXCEPT !.map = "map"]
            v3 == MapAddLayer(NewLayerGroup(v2, layer), layer)
            v4 == [v3 EXCEPT !.playersLayer = layer]
        IN  Then(redrawMapObjects(v4), redrawPlayers(redrawMapObjects(v4)))

watchPlayers_KP(v) == redrawPlayers(v)

\* A watcher that leaves the Active-Type Set as it is (mutant of
\* watchMapObjects_KP).
watchMapObjects_KP_NoRecompute(v) ==
  updateObjectVisibility_KP(redrawMapObjects(v))

watchMapObjects_KP(v) ==
  LET v1 == [v EXCEPT !.activeTypes = RecomputeActiveTypes(@, v.mapObjects)]
  IN  updateObjectVisibility_KP(redrawMapObjects(v1))

\* A watcher that redraws the objects on every change of the Active-Type Set
\* (mutant of watchActiveTypes_KP).
watchActiveTypes_Redraws(v) == updateObjectVisibility_KP(redrawMapObjects(v))

watchActiveTypes_KP(v) == updateObjectVisibility_KP(v)

onBeforeUnmount_KP(v) ==
  LET v1 == IF v.map # NULL THEN [MapRemove(v) EXCEPT !.map = NULL] ELSE v
  IN  [v1 EXCEPT !.playersLayer = NoLayer,
                 !.playerMarkers = {},
                 !.objectMarkers = << >>,
                 !.playerMarkerByUserId = EmptyMap]

-----------------------------------------------------------------------------
(* Implementation "OSD": src/unnamed/part_002 lines 1-261 *)

RECURSIVE DrawObjectsLoop(_, _)
DrawObjectsLoop(v, i) ==
  IF i > Len(v.mapObjects) THEN v
  ELSE LET item == v.mapObjects[i]
       IN  IF item.type \in v.activeTypes
           THEN DrawObjectsLoop(
                  [v EXCEPT !.overlays = Append(@, [element |-> "map-object-overlay", source |-> item]),
                            !.ops.creates = @ + 1], i + 1)
           ELSE DrawObjectsLoop(v, i + 1)

drawMapObjects(v) ==
  IF v.viewer = NULL \/ v.osdLib = NULL \/ Len(v.mapObjects) = 0 THEN v
  ELSE DrawObjectsLoop(v, 1)

RECURSIVE DrawPlayersLoop(_, _)
DrawPlayersLoop(v, i) ==
  IF i > Len(v.players) THEN v
  ELSE DrawPlayersLoop(
         [v EXCEPT !.overlays = Append(@, [element |-> "test-overlay", source |-> v.players[i]]),
                   !.ops.creates = @ + 1], i + 1)

drawPlayers(v) ==
  IF v.viewer = NULL \/ v.viewerSource = NULL \/ v.osdLib = NULL THEN v
  ELSE DrawPlayersLoop(v, 1)

\* A redraw without the `if (!viewer.value || !viewer.value.source ||
\* !osdLib.value || !isReady.value) return` (mutant of drawAllOverlays).
drawAllOverlays_Unguarded(v) ==
  LET cleared == [v EXCEPT !.overlays = << >>, !.ops.deletes = @ + Len(v.overlays)]
  IN  drawPlayers(drawMapObjects(cleared))

drawAllOverlays(v) ==
  IF v.viewer = NULL \/ v.viewerSource = NULL \/ v.osdLib = NULL \/ ~v.isReady THEN v
  ELSE LET cleared == [v EXCEPT !.overlays = << >>, !.ops.deletes = @ + Len(v.overlays)]
       IN  drawPlayers(drawMapObjects(cleared))

\* A continuation without the `if (!container) return` (mutant of
\* onMounted_OSD).
onMounted_OSD_NoContainerCheck(v) ==
  [v EXCEPT !.osdLib = "OpenSeadragon", !.viewer = "viewer", !.openHandler = TRUE,
            !.mouseTracker = "tracking"]

\* The continuation of onMounted after the two awaited imports.
onMounted_OSD(v) ==
  LET v1 == [v EXCEPT !.osdLib = "OpenSeadragon"]
  IN  IF v1.containerEl = NULL THEN v1
      ELSE [v1 EXCEPT !.viewer = "viewer", !.openHandler = TRUE,
                      !.mouseTracker = "tracking"]

\* The once-handler of the viewer's 'open' event; the viewer has its source
\* by then.
onOpen(v) ==
  drawAllOverlays([v EXCEPT !.viewerSource = "source", !.openHandler = FALSE,
                            !.isReady = TRUE])

watchPlayers_OSD(v) == drawAllOverlays(v)

watchMapObjects_OSD(v) ==
  LET v1 == [v EXCEPT !.activeTypes = RecomputeActiveTypes(@, v.mapObjects)]
  IN  drawAllOverlays(drawAllOverlays(v1))

watchActiveTypes_OSD(v) == drawAllOverlays(v)

\* viewer.destroy() closes the image and removes every handler and overlay.
onBeforeUnmount_OSD(v) ==
  LET v1 == [v EXCEPT !.mouseTracker = IF @ = "none" THEN @ ELSE "destroyed"]
  IN  IF v1.viewer # NULL
      THEN [v1 EXCEPT !.viewer = NULL, !.viewerSource = NULL,
                      !.openHandler = FALSE, !.overlays = << >>]
      ELSE v1

-----------------------------------------------------------------------------
(* The handlers, by implementation *)

onMountedContinuation(v) ==
  CASE variant = "LG" -> onMounted_LG(v)
    [] variant = "KP" -> onMounted_KP(v)
    [] variant = "OSD" -> onMounted_OSD(v)

watchPlayers(v) ==
  CASE variant = "LG" -> watchPlayers_LG(v)
    [] variant = "KP" -> watchPlayers_KP(v)
    [] variant = "OSD" -> watchPlayers_OSD(v)

watchMapObjects(v) ==
  CASE variant = "LG" -> watchMapObjects_LG(v)
    [] variant = "KP" -> watchMapObjects_KP(v)
    [] variant = "OSD" -> watchMapObjects_OSD(v)

watchActiveTypes(v) ==
  CASE variant = "LG" -> watchActiveTypes_LG(v)
    [] variant = "KP" -> watchActiveTypes_KP(v)
    [] variant = "OSD" -> watchActiveTypes_OSD(v)

onBeforeUnmount(v) ==
  CASE variant = "LG" -> onBeforeUnmount_LG(v)
    [] variant = "KP" -> onBeforeUnmount_KP(v)
    [] variant = "OSD" -> onBeforeUnmount_OSD(v)

-----------------------------------------------------------------------------
(* The state machine *)

\* After setup(): nothing loaded, empty props (the pages pass [] until the
\* first fetch resolves), and the immediate run of the mapObjects watcher has
\* left the Active-Type Set empty.
\* The map objects the parent has at construction.
InitialObjects(f) ==
  IF f = "outage" THEN << CHOOSE o \in ObjectPool : o.type = "dungeon" >> ELSE << >>

\* setup() with these map objects: the watcher of props.mapObjects is
\* immediate.
ComponentCreatedWith(objects) ==
  /\ lifecycle = "created"
  /\ pc = "idle"
  /\ containerEl = NULL
  /\ leaflet = NULL
  /\ map = NULL
  /\ playersLayer = NoLayer
  /\ objectLayersByType = EmptyMap
  /\ objectMarkerByKey = EmptyMap
  /\ playerMarkerByUserId = EmptyMap
  /\ objectMarkers = << >>
  /\ playerMarkers = {}
  /\ layerGroups = EmptyMap
  /\ mapLayers = {}
  /\ markerAttrs = EmptyMap
  /\ activeTypes = RecomputeActiveTypes({}, objects)
  /\ mapObjects = objects
  /\ players = << >>
  /\ osdLib = NULL
  /\ viewer = NULL
  /\ viewerSource = NULL
  /\ openHandler = FALSE
  /\ isReady = FALSE
  /\ mouseTracker = "none"
  /\ overlays = << >>
  /\ ops = NoOps
  /\ lastOp = "setup"
  /\ thrown = FALSE
  /\ coordsDisplay = "0,0"
  /\ errorMessage = NULL

ComponentCreated == ComponentCreatedWith(<< >>)

\* No evaluation of a coordinate function is under way.
CoordsIdle == coordArg = [fn |-> "none"] /\ coordResult = [done |-> FALSE]

\* The page's part: no interval, no $fetch call under way, no notification.
Endpoints == {"players", "info"}
NoFetch == [current |-> 0, superseded |-> 0]
NoneResolved == [endpoint |-> "none", ok |-> FALSE, superseded |-> FALSE, body |-> << >>]

PageIdle ==
  /\ timer = "none"
  /\ inflight = [e \in Endpoints |-> NoFetch]
  /\ lastToastMessage = NULL
  /\ toast = NULL
  /\ sent = [e \in Endpoints |-> 0]
  /\ resolved = NoneResolved
  /\ outcome = [e \in Endpoints |-> "none"]

\* No pair of reconcilers is running.
TwinIdle == twin = [on |-> FALSE]

\* The server as it starts, with a data file and a full configuration.
RequestIdle == [pc |-> "idle", mtimeMs |-> 0, stable |-> FALSE]
NoData == [kind |-> "none", items |-> << >>]
NoResponse == [status |-> 0, body |-> << >>, source |-> "none", message |-> "",
               parsed |-> NoData]
NoResult == [ok |-> FALSE, hasResponse |-> FALSE, hasData |-> FALSE, data |-> {},
             message |-> ""]
NoInfoResponse == [status |-> 0, body |-> {}, message |-> "", upstream |-> NoResult]

ServerStarted ==
  /\ cachedObjects = [isNull |-> TRUE, value |-> << >>, parsed |-> NoData]
  /\ cachedMtimeMs = 0
  /\ requests = [r \in {"a", "b"} |-> RequestIdle]
  /\ response = NoResponse
  /\ unobserved = TRUE
  /\ upstreamContacted = FALSE
  /\ infoResponse = NoInfoResponse

ServerIdle ==
  /\ endpoint = "none"
  /\ file = [mtimeMs |-> 1, kind |-> "missing", items |-> << >>]
  /\ mtimesSeen = {1}
  /\ config = [host |-> "localhost", port |-> "8212", password |-> "secret"]
  /\ ServerStarted

OutsideIdle == CoordsIdle /\ ServerIdle /\ PageIdle /\ TwinIdle

Init ==
  /\ variant \in Variants
  /\ feed \in Feeds
  /\ ComponentCreatedWith(InitialObjects(feed))
  /\ OutsideIdle

\* The component is mounted: the container exists and the onMounted hook runs
\* to its first await.
Mount ==
  /\ lifecycle = "created"
  /\ lifecycle' = "mounted"
  /\ pc' = "import"
  /\ Apply([View EXCEPT !.containerEl = "div"], "mount")
  /\ UNCHANGED << variant, feed >>
  /\ UNCHANGED << coordsDisplay, errorMessage >>
  /\ UNCHANGED outsideVars

\* OSD only: the first import resolves, the hook awaits the second one.
ImportResolved ==
  /\ variant = "OSD"
  /\ pc = "import"
  /\ pc' = "import2"
  /\ Apply(View, "import")
  /\ UNCHANGED << variant, feed, lifecycle >>
  /\ UNCHANGED << coordsDisplay, errorMessage >>
  /\ UNCHANGED outsideVars

\* The awaited library is there: the rest of onMounted runs.
LibraryLoaded ==
  /\ \/ variant # "OSD" /\ pc = "import"
     \/ variant = "OSD" /\ pc = "import2"
  /\ pc' = "done"
  /\ HasPlayerIds(View, Len(players))
  /\ Apply(onMountedContinuation(View), "onMounted")
  /\ UNCHANGED << variant, feed, lifecycle >>
  /\ UNCHANGED << coordsDisplay, errorMessage >>
  /\ UNCHANGED outsideVars

\* OSD only: the viewer raises 'open'.
ViewerOpen ==
  /\ variant = "OSD"
  /\ viewer # NULL
  /\ openHandler
  /\ Apply(onOpen(View), "open")
  /\ UNCHANGED << variant, feed, lifecycle, pc >>
  /\ UNCHANGED << coordsDisplay, errorMessage >>
  /\ UNCHANGED outsideVars

\* The parent passes a new players array; the watcher runs.
SetPlayers ==
  /\ feed \in {"players", "outage"}
  /\ lifecycle # "unmounted"
  /\ \E snapshot \in PlayerSnapshots :
       /\ HasPlayerIds(View, Len(snapshot))
       /\ Apply(watchPlayers([View EXCEPT !.players = snapshot]), "setPlayers")
  /\ errorMessage' = NULL
  /\ UNCHANGED << variant, feed, lifecycle, pc >>
  /\ UNCHANGED coordsDisplay
  /\ UNCHANGED outsideVars

\* The errors $fetch rejects with: one that carries the server's
\* statusMessage in data.message, one that carries none.
FetchErrors ==
  { [message |-> "Palworld connection not configured in runtime config"],
    [message |-> ""] }

\* A handler that reports nothing (mutant of playersFetchError).
playersFetchError_Silent(err) == NULL

\* err?.data?.message || 'Unable to load players.'
playersFetchError(err) ==
  IF err.message # "" THEN err.message ELSE "Unable to load players."

\* The players fetch of the page fails: the handler sets errorMessage and
\* returns [], the parent passes the empty array and the watcher runs.
PlayersFetchFailed ==
  /\ feed = "outage"
  /\ lifecycle # "unmounted"
  /\ \E err \in FetchErrors :
       /\ errorMessage' = playersFetchError(err)
       /\ Apply(watchPlayers([View EXCEPT !.players = << >>]), "playersFetchFailed")
  /\ UNCHANGED << variant, feed, lifecycle, pc >>
  /\ UNCHANGED coordsDisplay
  /\ UNCHANGED outsideVars

\* The parent passes a new mapObjects array; the watcher runs, and the
\* watcher of activeTypes after it.
SetMapObjects ==
  /\ feed = "mapObjects"
  /\ lifecycle # "unmounted"
  /\ \E snapshot \in ObjectSnapshots :
       Apply(watchMapObjects([View EXCEPT !.mapObjects = snapshot]), "setMapObjects")
  /\ UNCHANGED << variant, feed, lifecycle, pc >>
  /\ UNCHANGED << coordsDisplay, errorMessage >>
  /\ UNCHANGED outsideVars

\* The user changes the check box of one of the rendered categories.
ToggleType ==
  /\ feed # "outage"
  /\ lifecycle = "mounted"
  /\ \E type \in availableTypes(View), checked \in BOOLEAN :
       Apply(watchActiveTypes(toggleType(View, type, checked)), "toggleType")
  /\ UNCHANGED << variant, feed, lifecycle, pc >>
  /\ UNCHANGED << coordsDisplay, errorMessage >>
  /\ UNCHANGED outsideVars

\* The component is unmounted: onBeforeUnmount runs, then Vue clears the
\* template ref and stops the watchers.
Unmount ==
  /\ lifecycle = "mounted"
  /\ lifecycle' = "unmounted"
  /\ Apply([onBeforeUnmount(View) EXCEPT !.containerEl = NULL], "unmount")
  /\ UNCHANGED << variant, feed, pc >>
  /\ UNCHANGED << coordsDisplay, errorMessage >>
  /\ UNCHANGED outsideVars

\* The user moves the pointer over the map: the mousemove handler of the
\* Leaflet map, the moveHandler of the viewer's mouse tracker.
PointerMove ==
  /\ feed = "pointer"
  /\ \/ /\ variant = "OSD"
        /\ mouseTracker = "tracking"
        /\ \E viewportPoint \in PointerPoints :
             \E r \in {moveHandler(View, coordsDisplay, viewportPoint)} :
                Apply(r.v, "pointerMove") /\ coordsDisplay' = r.coordsDisplay
     \/ /\ variant # "OSD"
        /\ map # NULL
        /\ \E latlng \in PointerLatLngs :
             \E r \in {onMouseMove(View, latlng)} :
                Apply(r.v, "pointerMove") /\ coordsDisplay' = r.coordsDisplay
  /\ UNCHANGED << variant, feed, lifecycle, pc >>
  /\ UNCHANGED errorMessage
  /\ UNCHANGED outsideVars

\* The user clicks the focus button of a player of the sidebar.
FocusPlayer ==
  /\ variant = "KP"
  /\ feed = "players"
  /\ lifecycle = "mounted"
  /\ \E i \in DOMAIN players :
       Apply(focusPlayer(View, players[i]), "focusPlayer")
  /\ UNCHANGED << variant, feed, lifecycle, pc >>
  /\ UNCHANGED << coordsDisplay, errorMessage >>
  /\ UNCHANGED outsideVars

\* A response of the poll arrives after the teardown.  Vue has stopped the
\* watchers of the instance and passes it no props: no handler runs.
StaleResponse ==
  /\ lifecycle = "unmounted"
  /\ lastOp # "staleResponse"
  /\ Apply(View, "staleResponse")
  /\ UNCHANGED << variant, feed, lifecycle, pc >>
  /\ UNCHANGED << coordsDisplay, errorMessage >>
  /\ UNCHANGED outsideVars

Next ==
  \/ Mount
  \/ ImportResolved
  \/ LibraryLoaded
  \/ ViewerOpen
  \/ SetPlayers
  \/ SetMapObjects
  \/ ToggleType
  \/ Unmount
  \/ StaleResponse
  \/ PointerMove
  \/ PlayersFetchFailed
  \/ FocusPlayer

Spec == Init /\ [][Next]_vars

-----------------------------------------------------------------------------
(* The coordinate functions, evaluated on their own *)

CoordSpan == 1          \* grid cells on each side of the origin cell

WORLD_MIN_X == -999940
WORLD_MIN_Y == -738920
WORLD_MAX_X == 447900
WORLD_MAX_Y == 708920

\* Offsets from the centre of a grid cell, in halves of a world unit: the
\* centre, the two edges of the cell (half a step away) and just inside them.
CellOffsets == {-SCALE, -(SCALE - 1), 0, SCALE - 1, SCALE}

\* World coordinates: the documented bounds, and positions in the cells
\* around the origin of the grid.
WorldXs ==
  {RatOfInt(WORLD_MIN_X), RatOfInt(WORLD_MAX_X)}
    \cup { Rat(2 * (SCALE * k - TRANSLATION_X) + h, 2) :
             k \in (-CoordSpan)..CoordSpan, h \in CellOffsets }
WorldYs ==
  {RatOfInt(WORLD_MIN_Y), RatOfInt(WORLD_MAX_Y)}
    \cup { Rat(2 * (SCALE * k + TRANSLATION_Y) + h, 2) :
             k \in (-CoordSpan)..CoordSpan, h \in CellOffsets }

GridXs == {GAME_MIN_X, GAME_MAX_X} \cup ((-CoordSpan)..CoordSpan)
GridYs == {GAME_MIN_Y, GAME_MAX_Y} \cup ((-CoordSpan)..CoordSpan)

\* Game-local coordinates of the image viewer (-1000..1000), thirds included.
LocalCoords ==
  {RatOfInt(-1000), RatOfInt(1000)}
    \cup { Rat(k, 3) : k \in (-CoordSpan)..CoordSpan }
ImageSizes == {[x |-> 8192, y |-> 8192], [x |-> 4096, y |-> 3000]}

\* Map objects whose sub-type and label are free text.
KeyObjects ==
  [type : {"pal", "dungeon"}, x : {100, 1000}, y : {200},
   pal : {"", "Lamball", "Lamball:Alpha"},
   localized_name : {"", "Cave", "Alpha:Cave"}]

CoordArgs ==
  [fn : {"leaflet", "readout"}, x : WorldXs, y : WorldYs]
    \cup [fn : {"key"}, a : KeyObjects, b : KeyObjects]
    \cup [fn : {"grid"}, x : GridXs, y : GridYs]
    \cup [fn : {"viewport"}, xLoc : LocalCoords, yLoc : LocalCoords,
          imageSize : ImageSizes]

\* No component instance: the functions are called directly.
NoComponent == variant = "none" /\ feed = "none" /\ ComponentCreated

InitCoords ==
  /\ NoComponent
  /\ ServerIdle
  /\ PageIdle
  /\ TwinIdle
  /\ coordArg \in CoordArgs
  /\ coordResult = [done |-> FALSE]

\* leafletToWorld(worldToLeaflet(x, y))
LeafletRoundTrip ==
  /\ coordArg.fn = "leaflet"
  /\ ~coordResult.done
  /\ coordResult' =
       [done |-> TRUE,
        via |-> worldToLeafletQ(coordArg.x, coordArg.y),
        value |-> leafletToWorld(worldToLeafletQ(coordArg.x, coordArg.y))]
  /\ UNCHANGED << componentVars, coordArg, serverVars, pageVars, twin >>

\* worldToMap(mapToWorld(g))
GridRoundTrip ==
  /\ coordArg.fn = "grid"
  /\ ~coordResult.done
  /\ \E w \in {mapToWorld(coordArg.x, coordArg.y)} :
       coordResult' = [done |-> TRUE, via |-> w, value |-> worldToMap(w.x, w.y)]
  /\ UNCHANGED << componentVars, coordArg, serverVars, pageVars, twin >>

\* The mapping of the move handler applied to toViewportCoords(xLoc, yLoc)
ViewportRoundTrip ==
  /\ coordArg.fn = "viewport"
  /\ ~coordResult.done
  /\ \E point \in {toViewportCoords(coordArg.xLoc, coordArg.yLoc, coordArg.imageSize)} :
       coordResult' = [done |-> TRUE, via |-> point,
                       value |-> pointerToLocal(point, coordArg.imageSize)]
  /\ UNCHANGED << componentVars, coordArg, serverVars, pageVars, twin >>

\* The mousemove handler with the pointer at worldToLeaflet(x, y), and the
\* popup of a marker placed there.
ReadoutAtMarker ==
  /\ coordArg.fn = "readout"
  /\ ~coordResult.done
  /\ \E latlng \in {worldToLeafletQ(coordArg.x, coordArg.y)} :
       coordResult' = [done |-> TRUE, via |-> latlng,
                       value |-> onMouseMove(View, latlng).coordsDisplay,
                       popup |-> popupMapCoords(coordArg.x, coordArg.y)]
  /\ UNCHANGED << componentVars, coordArg, serverVars, pageVars, twin >>

\* getMapObjectKey of two map objects
KeyPair ==
  /\ coordArg.fn = "key"
  /\ ~coordResult.done
  /\ coordResult' = [done |-> TRUE, via |-> getMapObjectKey(coordArg.a),
                     value |-> getMapObjectKey(coordArg.b)]
  /\ UNCHANGED << componentVars, coordArg, serverVars, pageVars, twin >>

NextCoords ==
  \/ LeafletRoundTrip
  \/ GridRoundTrip
  \/ ViewportRoundTrip
  \/ ReadoutAtMarker
  \/ KeyPair

SpecCoords == InitCoords /\ [][NextCoords]_vars

-----------------------------------------------------------------------------
(* Notions the properties are stated in *)

LeafletReady == variant \in {"LG", "KP"} /\ leaflet # NULL /\ map # NULL

KeysOf(objects) == { getMapObjectKey(objects[i]) : i \in DOMAIN objects }
UserIdsOf(snapshot) == { snapshot[i].userId : i \in DOMAIN snapshot }

\* The markers of the live objects, and the category of each.
ObjectMarkerSet ==
  IF variant = "LG" THEN { e.marker : e \in Range(objectMarkerByKey) }
  ELSE Range(objectMarkers)

CategoryOf(marker) ==
  IF variant = "LG"
  THEN (CHOOSE e \in Range(objectMarkerByKey) : e.marker = marker).type
  ELSE markerAttrs[marker].title

\* Every place a marker can be held in.
Holders(marker) ==
  { <<"objectMarkerByKey", k>> : k \in { z \in DOMAIN objectMarkerByKey : objectMarkerByKey[z].marker = marker } }
    \cup { <<"playerMarkerByUserId", u>> : u \in { z \in DOMAIN playerMarkerByUserId : playerMarkerByUserId[z] = marker } }
    \cup { <<"layerGroup", g>> : g \in { z \in DOMAIN layerGroups : marker \in layerGroups[z] } }
    \cup { <<"map", 0>> : z \in { marker } \cap mapLayers }
    \cup { <<"objectMarkers", i>> : i \in { z \in DOMAIN objectMarkers : objectMarkers[z] = marker } }

\* The markers that display the player with this userId.
PlayerMarkersOf(userId) ==
  IF variant = "KP"
  THEN { playerMarkerByUserId[u] : u \in (DOMAIN playerMarkerByUserId) \cap {userId} }
  ELSE IF playersLayer = NoLayer THEN {}
  ELSE { m \in layerGroups[playersLayer] : markerAttrs[m].source.userId = userId }

-----------------------------------------------------------------------------
(* C1 *)

\* C1: once the map is Ready, the registry of a keyed reconciler holds one
\* marker per distinct identity of the latest snapshot and nothing else:
\* the keys of objectMarkerByKey are the composite keys of props.mapObjects
\* ("LG"), the keys of playerMarkerByUserId are the userIds of props.players
\* ("KP"), and two keys never share a marker.
C1_RegistryIsSnapshot ==
  /\ (LeafletReady /\ variant = "LG") =>
       /\ DOMAIN objectMarkerByKey = KeysOf(mapObjects)
       /\ \A k1, k2 \in DOMAIN objectMarkerByKey :
            objectMarkerByKey[k1].marker = objectMarkerByKey[k2].marker => k1 = k2
  /\ (LeafletReady /\ variant = "KP") =>
       /\ DOMAIN playerMarkerByUserId = UserIdsOf(players)
       /\ \A u1, u2 \in DOMAIN playerMarkerByUserId :
            playerMarkerByUserId[u1] = playerMarkerByUserId[u2] => u1 = u2

\* A snapshot that names one object twice was reconciled into one marker,
\* with a marker of the snapshot before removed in the same run.
C1_Witness ==
  /\ LeafletReady /\ variant = "LG" /\ lastOp = "setMapObjects"
  /\ Len(mapObjects) = 2
  /\ Cardinality(DOMAIN objectMarkerByKey) = 1
  /\ ops.deletes = 1 /\ ops.creates = 1

-----------------------------------------------------------------------------
(* C2 *)

\* The operations a second run of a reconciler performs in the current state,
\* and what it leaves of the registry and of the layers on the map.
C2_ObjectsRerunIsNoOp ==
  (LeafletReady /\ variant = "LG") =>
    LET again == syncMapObjectMarkers(View)
    IN  /\ again.ops = NoOps
        /\ again.objectMarkerByKey = objectMarkerByKey
        /\ again.mapLayers = mapLayers

C2_PlayersRerunIsNoOp ==
  (LeafletReady /\ variant = "KP") =>
    LET again == redrawPlayers(View)
    IN  /\ again.ops = NoOps
        /\ again.playerMarkerByUserId = playerMarkerByUserId
        /\ again.mapLayers = mapLayers

\* C2: reconciliation is idempotent: in every Ready state (the reconciler
\* has run with the current snapshot), running it a second time with the same
\* snapshot, syncMapObjectMarkers for objects and the keyed redrawPlayers for
\* players, performs no create, no update and no delete, and leaves the
\* registry and the set of attached layers as they are.
C2_RerunIsNoOp == C2_ObjectsRerunIsNoOp /\ C2_PlayersRerunIsNoOp

-----------------------------------------------------------------------------
(* C3 *)

\* The snapshot step shows the one player it showed before, at another
\* position and with nothing else changed.
C3_OnlyPositionChanges ==
  /\ lastOp' = "setPlayers"
  /\ Len(players) = 1 /\ Len(players') = 1
  /\ players'[1].userId = players[1].userId
  /\ players'[1].name = players[1].name
  /\ players'[1].level = players[1].level
  /\ << players'[1].location_x, players'[1].location_y >>
       # << players[1].location_x, players[1].location_y >>

C3_Step(impl) ==
  (variant = impl /\ LeafletReady /\ C3_OnlyPositionChanges) =>
    /\ \A userId \in UserIdsOf(players) :
         /\ Cardinality(PlayerMarkersOf(userId)) = 1
         /\ PlayerMarkersOf(userId)' = PlayerMarkersOf(userId)
    /\ ops' = [creates |-> 0, updates |-> 1, deletes |-> 0]

\* C3: when the next snapshot has a displayed player at a changed position
\* only, redrawPlayers (of either Leaflet implementation) repositions the
\* marker in place: the marker of that userId is the same object before and
\* after, and the run is one update, no create and no delete.
C3_MovedInPlace == [][C3_Step("LG") /\ C3_Step("KP")]_vars

-----------------------------------------------------------------------------
(* C4 *)

\* The keys of the registry that the new snapshot does not have.
C4_StaleKeys == (DOMAIN objectMarkerByKey) \ KeysOf(mapObjects')

\* Every object marker a group or the map holds is the marker of a registry
\* entry, and every registry entry is for a key of the latest snapshot.
C4_NoMarkerWithoutKey ==
  /\ (DOMAIN objectMarkerByKey) \subseteq KeysOf(mapObjects)
  /\ \A marker \in ObjectMarkerIds :
       (marker \in mapLayers \/ \E g \in DOMAIN layerGroups : marker \in layerGroups[g])
         => marker \in ObjectMarkerSet

C4_Step ==
  (variant = "LG") =>
    /\ (LeafletReady /\ lastOp' = "setMapObjects") =>
         /\ ops'.deletes = Cardinality(C4_StaleKeys)
         /\ \A key \in C4_StaleKeys : key \notin DOMAIN objectMarkerByKey'
         /\ \A marker \in ObjectMarkerIds :
              (\E key \in C4_StaleKeys : objectMarkerByKey[key].marker = marker)
                => /\ Holders(marker)' = {}
                   /\ marker \notin DOMAIN markerAttrs'
    /\ C4_NoMarkerWithoutKey'

\* C4: for every sequence of object snapshots, syncMapObjectMarkers removes
\* each marker whose composite key the new snapshot does not have, once (one
\* delete per stale key), from its layer group, from the map and from
\* objectMarkerByKey; and at no later time is there a marker for a key that
\* the latest snapshot does not contain.
C4_StaleRemovedOnce == [][C4_Step]_vars

\* Two objects were displayed and the next snapshot had neither: both markers
\* were removed in one run and nothing is left of them.
C4_Witness ==
  /\ variant = "LG" /\ LeafletReady /\ lastOp = "setMapObjects"
  /\ ops.deletes = 2
  /\ objectMarkerByKey = EmptyMap
  /\ objectLayersByType # EmptyMap
  /\ mapObjects = << >>

-----------------------------------------------------------------------------
(* C5 *)

\* The players that are displayed and that the new snapshot does not have.
C5_GoneUserIds == (DOMAIN playerMarkerByUserId) \ UserIdsOf(players')

C5_Step ==
  (variant = "KP" /\ LeafletReady /\ lastOp' = "setPlayers") =>
    \A userId \in C5_GoneUserIds :
      LET marker == playerMarkerByUserId[userId]
      IN  /\ marker \notin Range(playerMarkerByUserId')
          /\ marker \notin mapLayers'
          /\ playersLayer' # NoLayer => marker \notin layerGroups'[playersLayer']

\* C5: when a player of the previous snapshot is absent from the new one,
\* after redrawPlayers nothing refers to the marker of that player: not
\* playerMarkerByUserId, not the players layer group, not the map.
C5_AbsentPlayerReleased == [][C5_Step]_vars

-----------------------------------------------------------------------------
(* C6 *)

C6_Step ==
  (lastOp' = "setMapObjects") =>
    LET types == TypesOf(mapObjects')
    IN  /\ (activeTypes = {} /\ types # {}) => activeTypes' = types
        /\ ~(activeTypes = {} /\ types # {}) => activeTypes' = activeTypes \cap types
        /\ activeTypes' \subseteq types
        /\ \A type \in activeTypes : type \notin types => type \notin activeTypes'
        /\ \A type \in types \ TypesOf(mapObjects) :
             activeTypes # {} => type \notin activeTypes'

\* C6: on every mapObjects update (of each implementation, Ready or not) the
\* Active-Type Set becomes the set of all observed categories if it was empty
\* and the snapshot has a category, and its intersection with the observed
\* categories otherwise; so it is a subset of the categories of the latest
\* snapshot, a category that disappears is pruned, and a category that newly
\* appears while the set is not empty is not enabled.
C6_ActiveTypesRecomputed == [][C6_Step]_vars

\* Before the component is mounted nobody can toggle: a snapshot of dungeons
\* made the set {dungeon}, and the next snapshot brought pal, which stays off.
C6_Witness ==
  /\ lifecycle = "created" /\ lastOp = "setMapObjects"
  /\ TypesOf(mapObjects) = {"pal", "dungeon"}
  /\ activeTypes = {"dungeon"}

-----------------------------------------------------------------------------
(* C7 *)

\* C7: in every Ready state of the Leaflet implementations (each data update
\* and each change of the Active-Type Set has been processed), a live object
\* marker is on the map exactly if its category is in the Active-Type Set, and
\* running updateObjectVisibility again changes nothing.
C7_VisibilityMatchesActiveTypes ==
  LeafletReady =>
    /\ \A marker \in ObjectMarkerSet :
         (marker \in mapLayers) <=> (CategoryOf(marker) \in activeTypes)
    /\ variant = "LG" => updateObjectVisibility_LG(View) = View
    /\ variant = "KP" => updateObjectVisibility_KP(View) = View

\* A snapshot was drawn with one object of an active category, attached, and
\* one object of a category that is not active, detached.
C7_Witness ==
  /\ LeafletReady /\ variant = "KP" /\ lastOp = "setMapObjects"
  /\ \E shown, hidden \in ObjectMarkerSet :
       /\ shown \in mapLayers /\ CategoryOf(shown) \in activeTypes
       /\ hidden \notin mapLayers /\ CategoryOf(hidden) \notin activeTypes

-----------------------------------------------------------------------------
(* C8 *)

C8_Step ==
  (LeafletReady /\ lastOp' = "toggleType") =>
    /\ objectMarkerByKey' = objectMarkerByKey
    /\ objectMarkers' = objectMarkers
    /\ objectLayersByType' = objectLayersByType
    /\ layerGroups' = layerGroups
    /\ markerAttrs' = markerAttrs
    /\ ops' = NoOps
    /\ \E type \in TypesOf(mapObjects) :
         activeTypes' \in { activeTypes \cup {type}, activeTypes \ {type} }
    /\ \A marker \in ObjectMarkerSet :
         (marker \in mapLayers') <=> (CategoryOf(marker) \in activeTypes')

\* C8: a toggle of a category (toggleType, then the watcher of the Active-Type
\* Set) creates and destroys no marker: the registry, the layer groups and the
\* markers are the same objects after it, and each marker is on the map
\* exactly if its category is in the new Active-Type Set.  So toggling a
\* category off detaches its markers and keeps them registered, and toggling
\* it on again attaches the same markers.
C8_ToggleKeepsMarkers == [][C8_Step]_vars

\* After a toggle two registered markers remain, one of them off the map.
C8_Witness ==
  /\ LeafletReady /\ variant = "LG" /\ lastOp = "toggleType"
  /\ Cardinality(ObjectMarkerSet) = 2
  /\ Cardinality(ObjectMarkerSet \cap mapLayers) = 1
  /\ Cardinality(activeTypes) = 1

-----------------------------------------------------------------------------
(* C9 *)

C9_Step ==
  (variant = "LG" /\ LeafletReady /\ lastOp' = "setMapObjects") =>
    /\ \A key \in (DOMAIN objectMarkerByKey) \cap KeysOf(mapObjects') :
         /\ key \in DOMAIN objectMarkerByKey'
         /\ objectMarkerByKey'[key] = objectMarkerByKey[key]
         /\ \A marker \in ObjectMarkerIds :
              marker = objectMarkerByKey[key].marker =>
                /\ marker \in DOMAIN markerAttrs'
                /\ markerAttrs'[marker] = markerAttrs[marker]
                /\ marker \in mapLayers => marker \in mapLayers'
                /\ \E g \in DOMAIN layerGroups' : marker \in layerGroups'[g]
    /\ ops'.creates = Cardinality(KeysOf(mapObjects') \ DOMAIN objectMarkerByKey)
    /\ \A key \in DOMAIN objectMarkerByKey :
         objectMarkerByKey[key].type \notin TypesOf(mapObjects') =>
           /\ key \notin DOMAIN objectMarkerByKey'
           /\ objectMarkerByKey[key].type \notin activeTypes'
           /\ \A marker \in ObjectMarkerIds :
                marker = objectMarkerByKey[key].marker => Holders(marker)' = {}

\* C9: when a snapshot drops the objects of a category, syncMapObjectMarkers
\* deletes every marker of that category (and the category leaves the
\* Active-Type Set), and every marker whose key is in both the old and the new
\* snapshot is left alone: the same registry entry, the same marker object with
\* the same attributes, still in its layer group, and still on the map if it
\* was; markers are created for the new keys only.
C9_KeptMarkersUntouched == [][C9_Step]_vars

\* pal and dungeon were displayed; the next snapshot had the dungeon only: one
\* delete, no create, the dungeon marker registered and on the map.
C9_Witness ==
  /\ variant = "LG" /\ LeafletReady /\ lastOp = "setMapObjects"
  /\ ops = [creates |-> 0, updates |-> 0, deletes |-> 1]
  /\ activeTypes = {"dungeon"}
  /\ Cardinality(DOMAIN objectMarkerByKey) = 1
  /\ \A key \in DOMAIN objectMarkerByKey :
       /\ objectMarkerByKey[key].type = "dungeon"
       /\ objectMarkerByKey[key].marker \in mapLayers
  /\ "pal" \in DOMAIN objectLayersByType

-----------------------------------------------------------------------------
(* C10 *)

\* The surface the instance holds: the OpenSeadragon viewer, the Leaflet map.
Surface == IF variant = "OSD" THEN viewer ELSE map

\* Ready: the surface exists and, for OpenSeadragon, has reported 'open'.
Phase ==
  IF lifecycle = "unmounted" THEN "Disposed"
  ELSE IF Surface # NULL /\ (variant = "OSD" => isReady) THEN "Ready"
  ELSE IF lifecycle = "mounted" THEN "Initializing"
  ELSE "Uninitialized"

\* A teardown before the surface is ready goes from Initializing to Disposed.
PhaseMoves ==
  { << "Uninitialized", "Initializing" >>, << "Initializing", "Ready" >>,
    << "Ready", "Disposed" >>, << "Initializing", "Disposed" >> }

C10_Step ==
  /\ Phase' # Phase => << Phase, Phase' >> \in PhaseMoves
  /\ Phase' = "Disposed" =>
       /\ Surface' = NULL
       /\ ~openHandler'
       /\ mapLayers' = {} /\ overlays' = << >>

C10_WitnessLateImport ==
  /\ variant = "OSD" /\ lifecycle = "unmounted" /\ lastOp = "onMounted"
  /\ osdLib # NULL /\ viewer = NULL /\ ~isReady

-----------------------------------------------------------------------------
(* The server: GET /api/map/objects and GET /api/palworld/info *)

MaxMtime == 3           \* the mtimes of the data file are 1..MaxMtime

Mtimes == 1..MaxMtime
RequestIds == {"a", "b"}

ItemPal     == [type |-> "pal",     x |-> 100,  y |-> 200,  pal |-> "Lamball", localized_name |-> ""]
ItemDungeon == [type |-> "dungeon", x |-> 100,  y |-> 200,  pal |-> "",        localized_name |-> "Cave"]
ItemTower   == [type |-> "tower",   x |-> 1000, y |-> 2000, pal |-> "",        localized_name |-> ""]

\* What the data file can hold: nothing (the file is missing), text that is
\* not JSON, a JSON object, a JSON array of map objects.
FileArrays ==
  { << ItemPal, ItemDungeon >>, << ItemTower, ItemDungeon >>,
    << ItemDungeon, ItemPal, ItemTower >> }
FileContents ==
  { [kind |-> "missing", items |-> << >>], [kind |-> "invalid", items |-> << >>],
    [kind |-> "object", items |-> << >>] }
    \cup { [kind |-> "array", items |-> a] : a \in FileArrays }

\* const all = Array.isArray(data) ? data : []
ArrayOrEmpty(data) == IF data.kind = "array" THEN data.items ELSE << >>

\* A filter that keeps every item (mutant of filterNonPal).
filterNonPal_KeepsAll(all) == all

\* all.filter((item) => item.type !== 'pal')
filterNonPal(all) == SelectSeq(all, LAMBDA item : item.type # "pal")

\* The answer 200 with a body.
Ok(body, source, parsed) ==
  [status |-> 200, body |-> body, source |-> source, message |-> "", parsed |-> parsed]

\* A catch block that answers with an empty array (mutant of Error500).
Error500_EmptyArray(message) == Ok(<< >>, "none", NoData)

\* createError({ statusCode: 500, statusMessage: error?.message || ... })
Error500(message) ==
  [status |-> 500, body |-> << >>, source |-> "none",
   message |-> IF message # "" THEN message ELSE "Unable to load map objects",
   parsed |-> NoData]

\* A cache that is never out of date (mutant of cacheHit).
cacheHit_IgnoresMtime(cached, cachedMtime, mtimeMs) == ~cached.isNull

\* cachedObjects && cachedMtimeMs === stat.mtimeMs
cacheHit(cached, cachedMtime, mtimeMs) == ~cached.isNull /\ cachedMtime = mtimeMs

\* JSON.parse(raw) of a file that holds JSON
Parsed(f) == [kind |-> f.kind, items |-> f.items]

\* A request arrives: the handler runs up to `await fs.stat(objectsPath)`.
Arrive ==
  /\ endpoint = "objects"
  /\ \E r \in RequestIds :
       /\ requests[r].pc = "idle"
       /\ requests' = [requests EXCEPT ![r] = [pc |-> "stat", mtimeMs |-> 0, stable |-> TRUE]]
  /\ UNCHANGED << endpoint, file, cachedObjects, cachedMtimeMs, response,
                  mtimesSeen, unobserved, config, upstreamContacted, infoResponse >>
  /\ UNCHANGED << componentVars, coordVars, pageVars, twin >>

\* fs.stat settles and the handler continues: it fails, answers from the
\* cache, or goes on to `await fs.readFile(objectsPath, 'utf-8')`.
StatDone ==
  /\ endpoint = "objects"
  /\ \E r \in RequestIds :
       /\ requests[r].pc = "stat"
       /\ IF file.kind = "missing"
          THEN /\ response' = Error500("ENOENT: no such file or directory")
               /\ requests' = [requests EXCEPT ![r] = RequestIdle]
               /\ UNCHANGED unobserved
          ELSE IF cacheHit(cachedObjects, cachedMtimeMs, file.mtimeMs)
          THEN /\ response' = Ok(cachedObjects.value, "cache", cachedObjects.parsed)
               /\ requests' = [requests EXCEPT ![r] = RequestIdle]
               /\ unobserved' = FALSE
          ELSE /\ requests' = [requests EXCEPT ![r].pc = "read", ![r].mtimeMs = file.mtimeMs]
               /\ unobserved' = FALSE
               /\ UNCHANGED response
  /\ UNCHANGED << endpoint, file, cachedObjects, cachedMtimeMs, mtimesSeen,
                  config, upstreamContacted, infoResponse >>
  /\ UNCHANGED << componentVars, coordVars, pageVars, twin >>

\* fs.readFile settles and the handler continues: JSON.parse, the filter, the
\* two assignments to the cache, the answer.
ReadDone ==
  /\ endpoint = "objects"
  /\ \E r \in RequestIds :
       /\ requests[r].pc = "read"
       /\ requests' = [requests EXCEPT ![r] = RequestIdle]
       /\ IF file.kind = "missing"
          THEN /\ response' = Error500("ENOENT: no such file or directory")
               /\ UNCHANGED << cachedObjects, cachedMtimeMs >>
          ELSE IF file.kind = "invalid"
          THEN /\ response' = Error500("Unexpected token in JSON")
               /\ UNCHANGED << cachedObjects, cachedMtimeMs >>
          ELSE \E next \in {filterNonPal(ArrayOrEmpty(Parsed(file)))} :
                 /\ cachedObjects' = [isNull |-> FALSE, value |-> next,
                                      parsed |-> Parsed(file)]
                 /\ cachedMtimeMs' = requests[r].mtimeMs
                 /\ response' = Ok(next, "file", Parsed(file))
  /\ UNCHANGED << endpoint, file, mtimesSeen, unobserved, config,
                  upstreamContacted, infoResponse >>
  /\ UNCHANGED << componentVars, coordVars, pageVars, twin >>

\* Something outside the server writes, replaces or deletes the data file.
\* Its mtime changes; the new mtime may be one the file had before (a
\* restored copy keeps the mtime of the original).
Modify ==
  /\ endpoint = "objects"
  /\ \E m \in Mtimes \ {file.mtimeMs}, content \in FileContents :
       /\ file' = [mtimeMs |-> m, kind |-> content.kind, items |-> content.items]
       /\ mtimesSeen' = IF m \in mtimesSeen THEN Mtimes \cup {0} ELSE mtimesSeen \cup {m}
  /\ unobserved' = TRUE
  /\ requests' = [r \in RequestIds |-> [requests[r] EXCEPT !.stable = FALSE]]
  /\ UNCHANGED << endpoint, cachedObjects, cachedMtimeMs, response, config,
                  upstreamContacted, infoResponse >>
  /\ UNCHANGED << componentVars, coordVars, pageVars, twin >>

\* runtimeConfig.palworld: each of host, port, password set or missing.
Configs ==
  [host : {"", "localhost"}, port : {"", "8212"}, password : {"", "secret"}]

\* What axios.get settles with: a response with a body or without one, an
\* error response with a message or without one, no response at all.
UpstreamOutcomes ==
  { [ok |-> TRUE,  hasResponse |-> TRUE,  hasData |-> TRUE,
     data |-> {<<"servername", "Pal">>}, message |-> ""],
    [ok |-> TRUE,  hasResponse |-> TRUE,  hasData |-> TRUE,  data |-> {}, message |-> ""],
    [ok |-> TRUE,  hasResponse |-> TRUE,  hasData |-> FALSE, data |-> {}, message |-> ""],
    [ok |-> FALSE, hasResponse |-> TRUE,  hasData |-> TRUE,  data |-> {},
     message |-> "Unauthorized"],
    [ok |-> FALSE, hasResponse |-> TRUE,  hasData |-> FALSE, data |-> {}, message |-> ""],
    [ok |-> FALSE, hasResponse |-> FALSE, hasData |-> FALSE, data |-> {}, message |-> ""] }

\* A message that ignores what the upstream said (mutant of
\* upstreamErrorMessage).
upstreamErrorMessage_Generic(error) == "Unable to fetch info"

\* error?.response?.data?.message || 'Unable to fetch info'
upstreamErrorMessage(error) ==
  IF error.hasResponse /\ error.message # "" THEN error.message
  ELSE "Unable to fetch info"

\* A request for the server info arrives: the handler checks the
\* configuration and calls the Palworld REST API.
InfoArrive ==
  /\ endpoint = "info"
  /\ \E r \in RequestIds :
       /\ requests[r].pc = "idle"
       /\ IF config.host = "" \/ config.port = "" \/ config.password = ""
          THEN /\ infoResponse' =
                    [status |-> 500, body |-> {},
                     message |-> "Palworld connection not configured in runtime config",
                     upstream |-> NoResult]
               /\ UNCHANGED << requests, upstreamContacted >>
          ELSE /\ requests' = [requests EXCEPT ![r].pc = "upstream"]
               /\ upstreamContacted' = TRUE
               /\ UNCHANGED infoResponse
  /\ UNCHANGED << endpoint, file, cachedObjects, cachedMtimeMs, response,
                  mtimesSeen, unobserved, config >>
  /\ UNCHANGED << componentVars, coordVars, pageVars, twin >>

\* axios.get settles: `return result.data || {}`, or the catch block.
InfoDone ==
  /\ endpoint = "info"
  /\ \E r \in RequestIds, result \in UpstreamOutcomes :
       /\ requests[r].pc = "upstream"
       /\ requests' = [requests EXCEPT ![r] = RequestIdle]
       /\ infoResponse' =
            IF result.ok
            THEN [status |-> 200, body |-> IF result.hasData THEN result.data ELSE {},
                  message |-> "", upstream |-> result]
            ELSE [status |-> 502, body |-> {}, message |-> upstreamErrorMessage(result),
                  upstream |-> result]
  /\ UNCHANGED << endpoint, file, cachedObjects, cachedMtimeMs, response,
                  mtimesSeen, unobserved, config, upstreamContacted >>
  /\ UNCHANGED << componentVars, coordVars, pageVars, twin >>

InitServer ==
  /\ NoComponent
  /\ CoordsIdle
  /\ PageIdle
  /\ TwinIdle
  /\ ServerStarted
  /\ endpoint \in {"objects", "info"}
  /\ file \in { [mtimeMs |-> 1, kind |-> c.kind, items |-> c.items] :
                 c \in IF endpoint = "objects" THEN FileContents
                       ELSE {[kind |-> "missing", items |-> << >>]} }
  /\ mtimesSeen = {1}
  /\ config \in IF endpoint = "info" THEN Configs
                ELSE {[host |-> "localhost", port |-> "8212", password |-> "secret"]}

NextServer ==
  \/ Arrive
  \/ StatDone
  \/ ReadDone
  \/ Modify
  \/ InfoArrive
  \/ InfoDone

SpecServer == InitServer /\ [][NextServer]_vars

-----------------------------------------------------------------------------
(* The page: src/app/pages/index.vue, with the component as its child *)

\* $fetch is called without a `retry` option: a GET that fails (a network
\* error, or one of the statuses 408, 409, 425, 429, 500, 502, 503, 504) is
\* sent once more before the call rejects.
FetchRetry == 1

\* The bodies /api/palworld/players answers with: one player online.
PollBodies == { << p >> : p \in { q \in PlayerPool : q.location_x # 5000 } }

\* The two $fetch calls an endpoint can have under way: the one of the latest
\* refresh, and one that a later refresh has superseded.
Calls == {"current", "superseded"}

\* refresh() of useAsyncData, called with no `dedupe` option: the call under
\* way is superseded (its result will not be used) and a new one starts.
refresh(calls) == [current |-> 1, superseded |-> calls.current]

\* A refresh that leaves the call under way in force next to the new one
\* (mutant of asyncDataApplies).
asyncDataApplies_Always(which) == TRUE

\* The result of a settled call becomes `data` unless the call was superseded.
asyncDataApplies(which) == which = "current"

\* A watcher that keeps lastToastMessage when the message is cleared
\* (mutant of watchErrorMessage).
watchErrorMessage_NoReset(value, last) ==
  IF value = NULL \/ value = last THEN [last |-> last, toast |-> NULL]
  ELSE [last |-> value, toast |-> value]

\* watch(errorMessage, (value) => ...): the new lastToastMessage, and the
\* notification toast.add is called with, if it is called.
watchErrorMessage(value, last) ==
  IF value = NULL THEN [last |-> NULL, toast |-> NULL]
  ELSE IF value = last THEN [last |-> last, toast |-> NULL]
  ELSE [last |-> value, toast |-> value]

\* A handler assigns errorMessage.  The watcher runs before any other fetch
\* settles if the value has changed and the page is alive (its watchers are
\* stopped when it is unmounted).
SetErrorMessage(value) ==
  /\ errorMessage' = value
  /\ \E w \in { IF value # errorMessage /\ lifecycle # "unmounted"
                THEN watchErrorMessage(value, lastToastMessage)
                ELSE [last |-> lastToastMessage, toast |-> NULL] } :
       /\ lastToastMessage' = w.last
       /\ toast' = w.toast

\* The step sends no HTTP request.
NothingSent == sent' = [e \in Endpoints |-> 0]

\* The call `which` of endpoint e is over.
Settled(e, which) == inflight' = [inflight EXCEPT ![e][which] = 0]

\* The fetch of endpoint e that the latest tick started has ended with
\* `result`; the calls of setup() and superseded calls belong to no tick.
Ended(e, which, result) ==
  IF which = "current" /\ outcome[e] = "pending"
  THEN [outcome EXCEPT ![e] = result]
  ELSE outcome

\* The page and the component are created: useAsyncData has started the
\* first fetch of each endpoint.
InitPage ==
  /\ variant \in {"LG", "KP"}
  /\ feed = "page"
  /\ ComponentCreated
  /\ CoordsIdle
  /\ ServerIdle
  /\ TwinIdle
  /\ timer = "none"
  /\ inflight = [e \in Endpoints |-> [current |-> 1, superseded |-> 0]]
  /\ lastToastMessage = NULL
  /\ toast = NULL
  /\ sent = [e \in Endpoints |-> 1]
  /\ resolved = NoneResolved
  /\ outcome = [e \in Endpoints |-> "none"]

\* The page is mounted, the component with it: onMounted of the component
\* runs to its await, onMounted of the page starts the interval.
PageMount ==
  /\ lifecycle = "created"
  /\ lifecycle' = "mounted"
  /\ pc' = "import"
  /\ Apply([View EXCEPT !.containerEl = "div"], "mount")
  /\ timer' = "running"
  /\ toast' = NULL
  /\ NothingSent
  /\ resolved' = NoneResolved
  /\ UNCHANGED << variant, feed, coordsDisplay, errorMessage, inflight, lastToastMessage >>
  /\ UNCHANGED << coordVars, serverVars, twin, outcome >>

\* The library is there: the rest of the component's onMounted runs.
PageLibraryLoaded ==
  /\ pc = "import"
  /\ pc' = "done"
  /\ HasPlayerIds(View, Len(players))
  /\ Apply(onMountedContinuation(View), "onMounted")
  /\ toast' = NULL
  /\ NothingSent
  /\ resolved' = NoneResolved
  /\ UNCHANGED << variant, feed, lifecycle, coordsDisplay, errorMessage, timer, inflight,
                  lastToastMessage >>
  /\ UNCHANGED << coordVars, serverVars, twin, outcome >>

\* The page is unmounted: its onBeforeUnmount clears the interval, the
\* component's tears the map down.
PageUnmount ==
  /\ lifecycle = "mounted"
  /\ lifecycle' = "unmounted"
  /\ Apply([onBeforeUnmount(View) EXCEPT !.containerEl = NULL], "unmount")
  /\ timer' = (IF timer = "running" THEN "cleared" ELSE timer)
  /\ toast' = NULL
  /\ NothingSent
  /\ resolved' = NoneResolved
  /\ UNCHANGED << variant, feed, pc, coordsDisplay, errorMessage, inflight, lastToastMessage >>
  /\ UNCHANGED << coordVars, serverVars, twin, outcome >>

\* The interval fires: refreshPlayers(); refreshInfo().  At most one
\* superseded call per endpoint is followed.
Tick ==
  /\ timer = "running"
  /\ \A e \in Endpoints : inflight[e].current = 0 \/ inflight[e].superseded = 0
  /\ inflight' = [e \in Endpoints |-> refresh(inflight[e])]
  /\ sent' = [e \in Endpoints |-> 1]
  /\ outcome' = [e \in Endpoints |-> "pending"]
  /\ Apply(View, "tick")
  /\ toast' = NULL
  /\ resolved' = NoneResolved
  /\ UNCHANGED << variant, feed, lifecycle, pc, coordsDisplay, errorMessage, timer,
                  lastToastMessage >>
  /\ UNCHANGED << coordVars, serverVars, twin >>

\* An attempt of a $fetch call fails and is not the last one: the request
\* is sent again.
FetchRetried ==
  /\ \E e \in Endpoints, which \in Calls :
       /\ inflight[e][which] \in 1..FetchRetry
       /\ inflight' = [inflight EXCEPT ![e][which] = @ + 1]
       /\ sent' = [x \in Endpoints |-> IF x = e THEN 1 ELSE 0]
  /\ Apply(View, "fetchRetried")
  /\ toast' = NULL
  /\ resolved' = NoneResolved
  /\ UNCHANGED << variant, feed, lifecycle, pc, coordsDisplay, errorMessage, timer,
                  lastToastMessage >>
  /\ UNCHANGED << coordVars, serverVars, twin, outcome >>

\* The new `data` of the players reaches the component as props.players and
\* its watcher runs; nothing happens for a superseded call, or once the
\* component is unmounted.
PlayersData(which, body, op) ==
  IF asyncDataApplies(which) /\ lifecycle # "unmounted"
  THEN /\ HasPlayerIds(View, Len(body))
       /\ Apply(watchPlayers([View EXCEPT !.players = body]), op)
  ELSE Apply(View, op)

\* $fetch of the players resolves: errorMessage.value = null; return response
PlayersResolved ==
  /\ \E which \in Calls, body \in PollBodies :
       /\ inflight["players"][which] > 0
       /\ Settled("players", which)
       /\ outcome' = Ended("players", which, "ok")
       /\ SetErrorMessage(NULL)
       /\ PlayersData(which, body, "playersResolved")
       /\ resolved' = [endpoint |-> "players", ok |-> TRUE,
                       superseded |-> which = "superseded", body |-> body]
  /\ NothingSent
  /\ UNCHANGED << variant, feed, lifecycle, pc, coordsDisplay, timer >>
  /\ UNCHANGED << coordVars, serverVars, twin >>

\* $fetch of the players rejects after its last attempt: the catch branch
\* sets errorMessage and returns [].
PlayersFailed ==
  /\ \E which \in Calls, err \in FetchErrors :
       /\ inflight["players"][which] > FetchRetry
       /\ Settled("players", which)
       /\ outcome' = Ended("players", which, "failed")
       /\ SetErrorMessage(playersFetchError(err))
       /\ PlayersData(which, << >>, "playersFailed")
       /\ resolved' = [endpoint |-> "players", ok |-> FALSE,
                       superseded |-> which = "superseded", body |-> << >>]
  /\ NothingSent
  /\ UNCHANGED << variant, feed, lifecycle, pc, coordsDisplay, timer >>
  /\ UNCHANGED << coordVars, serverVars, twin >>

\* $fetch of the server info resolves: return response (errorMessage is not
\* assigned; the server name is not part of the map).
InfoResolved ==
  /\ \E which \in Calls :
       /\ inflight["info"][which] > 0
       /\ Settled("info", which)
       /\ outcome' = Ended("info", which, "ok")
       /\ resolved' = [endpoint |-> "info", ok |-> TRUE,
                       superseded |-> which = "superseded", body |-> << >>]
  /\ Apply(View, "infoResolved")
  /\ toast' = NULL
  /\ NothingSent
  /\ UNCHANGED << variant, feed, lifecycle, pc, coordsDisplay, errorMessage, timer,
                  lastToastMessage >>
  /\ UNCHANGED << coordVars, serverVars, twin >>

\* $fetch of the server info rejects after its last attempt: the catch
\* branch sets errorMessage and returns {}.
InfoFailed ==
  /\ \E which \in Calls :
       /\ inflight["info"][which] > FetchRetry
       /\ Settled("info", which)
       /\ outcome' = Ended("info", which, "failed")
       /\ resolved' = [endpoint |-> "info", ok |-> FALSE,
                       superseded |-> which = "superseded", body |-> << >>]
  /\ SetErrorMessage("Unable to load server info.")
  /\ Apply(View, "infoFailed")
  /\ NothingSent
  /\ UNCHANGED << variant, feed, lifecycle, pc, coordsDisplay, timer >>
  /\ UNCHANGED << coordVars, serverVars, twin >>

NextPage ==
  \/ PageMount
  \/ PageLibraryLoaded
  \/ PageUnmount
  \/ Tick
  \/ FetchRetried
  \/ PlayersResolved
  \/ PlayersFailed
  \/ InfoResolved
  \/ InfoFailed

SpecPage == InitPage /\ [][NextPage]_vars

-----------------------------------------------------------------------------
(* The two object reconcilers side by side: the component's variables hold
   the keyed implementation (lines 1-409), twin.kp the clear-and-redraw
   implementation (lines 410-894), and both receive the same mapObjects
   props and the same clicks on the filter check boxes *)

\* The view a handler of the second instance starts from.
KPView ==
  [twin.kp EXCEPT !.ops = NoOps, !.thrown = FALSE, !.used = LiveIdsOf(twin.kp)]

\* Marker objects have no identity of their own in what follows: the object
\* markers of the second instance are numbered in the order of objectMarkers
\* once a handler has returned and the markers it dropped are gone.
Renumbered(v) ==
  LET n == Len(v.objectMarkers)
      first == CHOOSE i \in ObjectMarkerIds : \A j \in ObjectMarkerIds : i <= j
      New(marker) ==
        IF marker \in Range(v.objectMarkers)
        THEN first - 1 + (CHOOSE i \in 1..n : v.objectMarkers[i] = marker)
        ELSE marker
      Old(id) == CHOOSE marker \in DOMAIN v.markerAttrs : New(marker) = id
  IN  [v EXCEPT !.objectMarkers = [i \in 1..n |-> first - 1 + i],
                !.mapLayers = { New(marker) : marker \in v.mapLayers },
                !.markerAttrs =
                  IF DOMAIN v.markerAttrs = {} THEN EmptyMap
                  ELSE [id \in { New(marker) : marker \in DOMAIN v.markerAttrs } |->
                          v.markerAttrs[Old(id)]],
                !.used = { New(marker) : marker \in v.used }]

\* The counts of a handler's marker operations are not kept here.
Uncounted(v) == [v EXCEPT !.ops = NoOps]

\* The second instance after a handler.
TwinApply(w, off) ==
  \E v \in {Renumbered(Collected(w))} :
     twin' = [on |-> TRUE, kp |-> [Uncounted(v) EXCEPT !.used = {}],
              toggledOff |-> off]

\* The categories the user has unchecked and not checked again, among those
\* the snapshot has.
ToggledOff(off, type, checked) ==
  IF checked THEN off \ {type} ELSE off \cup {type}

InitTwin ==
  /\ variant = "LG"
  /\ feed = "twin"
  /\ ComponentCreated
  /\ CoordsIdle /\ ServerIdle /\ PageIdle
  /\ twin = [on |-> TRUE, kp |-> View, toggledOff |-> {}]

TwinMount ==
  /\ lifecycle = "created"
  /\ lifecycle' = "mounted"
  /\ pc' = "import"
  /\ Apply([View EXCEPT !.containerEl = "div"], "mount")
  /\ TwinApply([KPView EXCEPT !.containerEl = "div"], twin.toggledOff)
  /\ UNCHANGED << variant, feed, coordsDisplay, errorMessage >>
  /\ UNCHANGED << coordVars, serverVars, pageVars >>

TwinLibraryLoaded ==
  /\ pc = "import"
  /\ pc' = "done"
  /\ Apply(Uncounted(onMounted_LG(View)), "onMounted")
  /\ TwinApply(onMounted_KP(KPView), twin.toggledOff)
  /\ UNCHANGED << variant, feed, lifecycle, coordsDisplay, errorMessage >>
  /\ UNCHANGED << coordVars, serverVars, pageVars >>

\* Both instances get the same new mapObjects array.
TwinSetMapObjects ==
  /\ \E snapshot \in ObjectSnapshots :
       /\ Apply(Uncounted(watchMapObjects_LG([View EXCEPT !.mapObjects = snapshot])),
                "setMapObjects")
       /\ TwinApply(watchMapObjects_KP([KPView EXCEPT !.mapObjects = snapshot]),
                    twin.toggledOff \cap TypesOf(snapshot))
  /\ UNCHANGED << variant, feed, lifecycle, pc, coordsDisplay, errorMessage >>
  /\ UNCHANGED << coordVars, serverVars, pageVars >>

\* The same check box is changed in both instances.
TwinToggleType ==
  /\ lifecycle = "mounted"
  /\ \E type \in availableTypes(View), checked \in BOOLEAN :
       /\ Apply(Uncounted(watchActiveTypes_LG(toggleType(View, type, checked))),
                "toggleType")
       /\ TwinApply(watchActiveTypes_KP(toggleType(KPView, type, checked)),
                    ToggledOff(twin.toggledOff, type, checked))
  /\ UNCHANGED << variant, feed, lifecycle, pc, coordsDisplay, errorMessage >>
  /\ UNCHANGED << coordVars, serverVars, pageVars >>

NextTwin ==
  \/ TwinMount
  \/ TwinLibraryLoaded
  \/ TwinSetMapObjects
  \/ TwinToggleType

SpecTwin == InitTwin /\ [][NextTwin]_vars

-----------------------------------------------------------------------------
(* C11 *)

\* Everything drawn: the markers, their registries and groups, the overlays.
DrawnState ==
  << playersLayer, objectLayersByType, objectMarkerByKey, playerMarkerByUserId,
     objectMarkers, playerMarkers, layerGroups, mapLayers, markerAttrs, overlays >>

\* The overlays drawAllOverlays draws for the data: the objects of the active
\* categories, then the players.
OverlaysOf(objects, types, snapshot) ==
  LET shown == SelectSeq(objects, LAMBDA o : o.type \in types)
  IN  [i \in 1..Len(shown) |-> [element |-> "map-object-overlay", source |-> shown[i]]]
        \o [i \in 1..Len(snapshot) |-> [element |-> "test-overlay", source |-> snapshot[i]]]

\* What is drawn is the data of the props.
DataIsDrawn ==
  CASE variant = "LG" ->
         /\ DOMAIN objectMarkerByKey = KeysOf(mapObjects)
         /\ \A key \in DOMAIN objectMarkerByKey :
              getMapObjectKey(markerAttrs[objectMarkerByKey[key].marker].source) = key
         /\ playersLayer # NoLayer
         /\ Cardinality(layerGroups[playersLayer]) = Len(players)
         /\ { markerAttrs[m].source : m \in layerGroups[playersLayer] } = Range(players)
    [] variant = "KP" ->
         /\ Len(objectMarkers) = Len(mapObjects)
         /\ \A i \in DOMAIN objectMarkers :
              markerAttrs[objectMarkers[i]].source = mapObjects[i]
         /\ DOMAIN playerMarkerByUserId = UserIdsOf(players)
         /\ \A u \in DOMAIN playerMarkerByUserId :
              markerAttrs[playerMarkerByUserId[u]].source \in Range(players)
    [] variant = "OSD" ->
         overlays = OverlaysOf(mapObjects, activeTypes, players)

C11_Step ==
  /\ (Phase \in {"Uninitialized", "Initializing"}
        /\ lastOp' \in {"setPlayers", "setMapObjects", "toggleType"})
       => /\ DrawnState' = DrawnState
          /\ ops' = NoOps
          /\ ~thrown'
  /\ (Phase # "Ready" /\ Phase' = "Ready")
       => /\ DataIsDrawn'
          /\ ~thrown'

\* C11: in every state before Ready (library not loaded, or surface not yet
\* constructed or opened), a players update, a mapObjects update or a type
\* toggle draws nothing, changes no marker or overlay state and raises no
\* error; the data present at that time is drawn when Ready is entered.
C11_DeferredUntilReady == [][C11_Step]_vars

\* Data that arrived before Ready has been drawn on entering Ready.
C11_Witness ==
  /\ lastOp \in {"onMounted", "open"}
  /\ Phase = "Ready"
  /\ Len(mapObjects) + Len(players) > 0
  /\ ops.creates > 0
  /\ DataIsDrawn

\* A toggle before Ready has changed the Active-Type Set and nothing drawn.
C11_WitnessToggle ==
  /\ lastOp = "toggleType"
  /\ Phase = "Initializing"
  /\ mapObjects # << >>
  /\ activeTypes = {}

-----------------------------------------------------------------------------
(* C12 *)

C12_Step ==
  /\ (lifecycle = "mounted" /\ lifecycle' = "unmounted")
       => /\ Surface' = NULL
          /\ mouseTracker' # "tracking"
          /\ ~openHandler'
          /\ objectMarkerByKey' = EmptyMap
          /\ playerMarkerByUserId' = EmptyMap
          /\ objectMarkers' = << >>
          /\ playerMarkers' = {}
          /\ mapLayers' = {}
          /\ overlays' = << >>
  /\ lifecycle = "unmounted"
       => /\ DrawnState' = DrawnState
          /\ ops' = NoOps
          /\ ~thrown'
          /\ Surface' = NULL
          /\ mouseTracker' = mouseTracker

\* C12: teardown destroys the surface, detaches pointer tracking and empties
\* the marker registries, and afterwards no data change (a poll response that
\* resolves after teardown, an import that resolves after it) creates, updates
\* or removes any marker or touches the destroyed surface.
C12_TeardownIsFinal == [][C12_Step]_vars

\* A poll response has arrived at an instance that was Ready, showed players
\* and has been torn down.
C12_Witness ==
  /\ variant = "OSD"
  /\ lifecycle = "unmounted"
  /\ lastOp = "staleResponse"
  /\ isReady
  /\ mouseTracker = "destroyed"
  /\ players # << >>
  /\ overlays = << >>

-----------------------------------------------------------------------------
(* C13 *)

\* The distance of two numbers is at most half a grid step, SCALE / 2.
WithinHalfStep(r, q) ==
  LET e == RatMinus(r, q) IN 2 * Abs(e.n) <= SCALE * e.d

\* C13: for every world coordinate (x, y) within the documented world bounds,
\* leafletToWorld(worldToLeaflet(x, y)) differs from (x, y) by at most half a
\* grid step (SCALE / 2 = 229.5) on each axis, and for every integer map-grid
\* coordinate g, worldToMap(mapToWorld(g)) = g exactly.
C13_RoundTrips ==
  coordResult.done =>
    /\ coordArg.fn = "leaflet" =>
         /\ WithinHalfStep(coordResult.value.worldX, coordArg.x)
         /\ WithinHalfStep(coordResult.value.worldY, coordArg.y)
    /\ coordArg.fn = "grid" =>
         coordResult.value = [x |-> coordArg.x, y |-> coordArg.y]

\* A position on the edge of its cell has come back exactly half a step away.
C13_Witness ==
  /\ coordArg.fn = "leaflet"
  /\ coordResult.done
  /\ coordArg.x.d = 2
  /\ LET e == RatMinus(coordResult.value.worldX, coordArg.x)
     IN  2 * Abs(e.n) = SCALE * e.d

-----------------------------------------------------------------------------
(* C14 *)

\* C14: in the image viewer, the mapping of the move handler
\* (px / imgX * 2000 - 1000, (imgY - py) / imgY * 2000 - 1000) applied to
\* toViewportCoords(xLoc, yLoc) yields (xLoc, yLoc) for every game-local
\* (xLoc, yLoc) and image size; the forward direction inverts Y (yLoc = 1000
\* is the top of the image, yLoc = -1000 its bottom).
C14_ReadoutInvertsViewport ==
  (coordArg.fn = "viewport" /\ coordResult.done) =>
    /\ coordResult.value = [x |-> coordArg.xLoc, y |-> coordArg.yLoc]
    /\ coordArg.yLoc = RatOfInt(1000) => coordResult.via.y = RatOfInt(0)
    /\ coordArg.yLoc = RatOfInt(-1000) =>
         coordResult.via.y = RatOfInt(coordArg.imageSize.y)

\* A point that is not on the image's pixel grid has been mapped back.
C14_Witness ==
  /\ coordArg.fn = "viewport"
  /\ coordResult.done
  /\ coordArg.yLoc = Rat(1, 3)
  /\ coordArg.imageSize.y = 3000
  /\ coordResult.value.y = Rat(1, 3)

-----------------------------------------------------------------------------
(* C15 *)

\* C15: pointer movement over the image-viewer surface never raises an
\* error, also when it occurs after the viewer is constructed and before the
\* surface has reported 'open' (viewer.source not yet available).
C15_PointerMoveNeverThrows ==
  (variant = "OSD" /\ lastOp = "pointerMove") => ~thrown

-----------------------------------------------------------------------------
(* C16 *)

\* The items of an array that are not of type 'pal', in the array's order.
RECURSIVE NonPalItems(_)
NonPalItems(items) ==
  IF items = << >> THEN << >>
  ELSE (IF Head(items).type = "pal" THEN << >> ELSE << Head(items) >>)
         \o NonPalItems(Tail(items))

\* No mtime of the file has come back after the file had another one.
NoMtimeRecurs == 0 \notin mtimesSeen

C16_Step ==
  \A r \in RequestIds :
    /\ (requests[r].pc = "stat" /\ requests'[r].pc = "idle" /\ response'.status = 200)
         => /\ file.kind \in {"array", "object"}
            /\ response'.body = NonPalItems(ArrayOrEmpty(Parsed(file)))
    /\ (requests[r].pc = "stat" /\ requests'[r].pc # "stat"
          /\ unobserved /\ file.kind # "missing")
         => requests'[r].pc = "read"

\* C16 as stated: under any interleaving of concurrent requests and
\* modifications of the data file, the mtime changing with every
\* modification, a request answered from the cache returns exactly the
\* non-'pal' items of the content the file has at that moment, and the first
\* request that sees the file after a modification reads it again.
C16_CacheIsCurrent == [][C16_Step]_vars

\* C16, amended: the same, when moreover no mtime value of the file recurs.
C16_CacheIsCurrentUnlessMtimeRecurs == [][NoMtimeRecurs' => C16_Step]_vars

\* A request was answered from the cache, with two non-'pal' items, while
\* another request was between its stat and its read; no mtime has recurred.
C16_Witness ==
  /\ response.status = 200
  /\ response.source = "cache"
  /\ Len(response.body) = 2
  /\ NoMtimeRecurs
  /\ Cardinality(mtimesSeen) > 1
  /\ \E r \in RequestIds : requests[r].pc = "read"

-----------------------------------------------------------------------------
(* C17 *)

\* C17: every successful GET /api/map/objects response, cached or fresh, is
\* an array with no item of type 'pal' that holds every non-'pal' item of the
\* parsed file in file order; valid JSON that is not an array yields the
\* empty array.
C17_BodyIsFilteredFile ==
  response.status = 200 =>
    /\ \A i \in DOMAIN response.body : response.body[i].type # "pal"
    /\ response.parsed.kind \in {"array", "object"}
    /\ response.body = NonPalItems(response.parsed.items)
    /\ response.parsed.kind = "object" => response.body = << >>

\* A cached answer: the two non-'pal' items of a file of three, in file order.
C17_Witness ==
  /\ response.status = 200
  /\ response.source = "cache"
  /\ response.parsed.items = << ItemDungeon, ItemPal, ItemTower >>
  /\ response.body = << ItemDungeon, ItemTower >>

-----------------------------------------------------------------------------
(* C18 *)

\* A request whose stat, read or parse fails.
C18_FailureStep ==
  \A r \in RequestIds :
    (requests[r].pc \in {"stat", "read"} /\ requests'[r].pc = "idle"
       /\ (file.kind = "missing" \/ (requests[r].pc = "read" /\ file.kind = "invalid")))
      => /\ response'.status = 500
         /\ cachedObjects' = cachedObjects
         /\ cachedMtimeMs' = cachedMtimeMs

\* A request that arrived when the file was readable and is answered before
\* the file changes again.
C18_RecoveryStep(current) ==
  \A r \in RequestIds :
    (requests[r].pc \in {"stat", "read"} /\ requests'[r].pc = "idle"
       /\ requests[r].stable /\ file.kind \in {"array", "object"})
      => /\ response'.status = 200
         /\ current => response'.body = NonPalItems(ArrayOrEmpty(Parsed(file)))

-----------------------------------------------------------------------------
(* C19 *)

Unconfigured == config.host = "" \/ config.port = "" \/ config.password = ""

\* C19: GET /api/palworld/info answers 502 for every failure of the upstream
\* call, with the upstream's message when it supplied one and 'Unable to
\* fetch info' otherwise; it answers 500 without contacting upstream when
\* host, port or password is not configured; on success it returns the
\* upstream body or an empty object.
C19_InfoAnswers ==
  /\ Unconfigured =>
       /\ ~upstreamContacted
       /\ infoResponse.status \in {0, 500}
       /\ \A r \in RequestIds : requests[r].pc = "idle"
  /\ ~Unconfigured => infoResponse.status \in {0, 200, 502}
  /\ infoResponse.status = 502 =>
       /\ ~infoResponse.upstream.ok
       /\ infoResponse.message =
            IF infoResponse.upstream.message # ""
            THEN infoResponse.upstream.message ELSE "Unable to fetch info"
  /\ infoResponse.status = 200 =>
       /\ infoResponse.upstream.ok
       /\ infoResponse.body =
            IF infoResponse.upstream.hasData THEN infoResponse.upstream.data ELSE {}

\* The upstream refused the request with a message, which the answer carries.
C19_Witness ==
  /\ infoResponse.status = 502
  /\ infoResponse.upstream.hasResponse
  /\ infoResponse.message = "Unauthorized"

\* A server without a password has answered 500.
C19_WitnessUnconfigured ==
  /\ config.password = ""
  /\ infoResponse.status = 500
  /\ ~upstreamContacted

-----------------------------------------------------------------------------
(* C20 *)

\* The players and the map objects on display: the sources of the markers on
\* the map, of the overlays of the viewer.
PlayersOnDisplay ==
  IF variant = "OSD"
  THEN { overlays[i].source : i \in { j \in DOMAIN overlays : overlays[j].element = "test-overlay" } }
  ELSE { markerAttrs[m].source : m \in mapLayers \cap PlayerMarkerIds }
ObjectsOnDisplay ==
  IF variant = "OSD"
  THEN { overlays[i].source :
           i \in { j \in DOMAIN overlays : overlays[j].element = "map-object-overlay" } }
  ELSE { markerAttrs[m].source : m \in mapLayers \cap ObjectMarkerIds }

C20_Step ==
  /\ lastOp' = "playersFetchFailed"
       => /\ players' = << >>
          /\ errorMessage' \in {"Unable to load players.",
                                "Palworld connection not configured in runtime config"}
          /\ PlayersOnDisplay' = {}
          /\ playerMarkerByUserId' = EmptyMap
          /\ ObjectsOnDisplay' = ObjectsOnDisplay
          /\ << objectMarkerByKey, objectMarkers, objectLayersByType >>'
               = << objectMarkerByKey, objectMarkers, objectLayersByType >>
          /\ activeTypes' = activeTypes
          /\ mapObjects' = mapObjects
          /\ ~thrown'
  /\ (lastOp = "playersFetchFailed" /\ lastOp' = "setPlayers" /\ Phase = "Ready")
       => /\ PlayersOnDisplay' \subseteq Range(players')
          /\ UserIdsOf(players') = { p.userId : p \in PlayersOnDisplay' }
          /\ errorMessage' = NULL

\* C20: a failed players fetch degrades to partial rendering: the players
\* list becomes empty, so no player marker is on the map after the
\* reconciliation, errorMessage is set, and the object markers and the
\* Active-Type Set are as before; the next successful poll brings the player
\* markers back.
C20_FailedFetchDegrades == [][C20_Step]_vars

\* Players were on the map with a dungeon; the fetch has failed, and the
\* dungeon is all that is on the map.
C20_Witness ==
  /\ lastOp = "playersFetchFailed"
  /\ Phase = "Ready"
  /\ ops.deletes > 0
  /\ errorMessage = "Unable to load players."
  /\ PlayersOnDisplay = {}
  /\ ObjectsOnDisplay # {}

\* The poll after a failed one has succeeded and the players are back.
C20_WitnessRestored ==
  /\ lastOp = "setPlayers"
  /\ Phase = "Ready"
  /\ errorMessage = NULL
  /\ Cardinality(PlayersOnDisplay) = 2
  /\ ObjectsOnDisplay # {}

-----------------------------------------------------------------------------
(* C21 *)

\* The page is alive: its watchers run.
PageAlive == lifecycle # "unmounted"

C21_Step ==
  PageAlive =>
    /\ toast' # NULL <=> /\ errorMessage' # errorMessage
                         /\ errorMessage' # NULL
                         /\ errorMessage' # lastToastMessage
    /\ toast' # NULL => toast' = errorMessage' /\ lastToastMessage' = errorMessage'
    /\ (errorMessage' # errorMessage /\ errorMessage' = NULL) => lastToastMessage' = NULL
    /\ errorMessage' # NULL => lastToastMessage' = errorMessage'

\* C21: while the page is alive, a step adds a notification exactly when it
\* changes errorMessage to a non-null value different from lastToastMessage,
\* and the notification carries that value; a change of errorMessage to null
\* resets lastToastMessage.  lastToastMessage is the message on display as
\* long as there is one, so the same message assigned again adds nothing,
\* and after a null in between it adds a notification again.
C21_ToastOnNewMessage == [][C21_Step]_vars

\* The players fetch has failed while the interval was running, and a
\* notification with its message was added.
C21_Witness ==
  /\ PageAlive
  /\ resolved.endpoint = "players"
  /\ ~resolved.ok
  /\ toast = "Unable to load players."
  /\ lastToastMessage = "Unable to load players."
  /\ timer = "running"

\* A failure with the message already on display: no notification.
C21_WitnessRepeated ==
  /\ PageAlive
  /\ resolved.endpoint = "info"
  /\ ~resolved.ok
  /\ toast = NULL
  /\ errorMessage = "Unable to load server info."

-----------------------------------------------------------------------------
(* C22 *)

\* A $fetch call of the players settled in the step, and the map is Ready
\* after it.
PlayersSettled == resolved'.endpoint = "players" /\ LeafletReady'

PlayersOf(body) == { body[i] : i \in DOMAIN body }

\* C22 as stated: after every response of the players, of a superseded call
\* or not, the players on display are those of that response.
C22_EveryResponseDisplayed ==
  [][PlayersSettled => PlayersOnDisplay' = PlayersOf(resolved'.body)]_vars

C22_Step ==
  PlayersSettled =>
    IF resolved'.superseded
    THEN /\ players' = players
         /\ PlayersOnDisplay' = PlayersOnDisplay
         /\ ops' = NoOps
    ELSE /\ players' = resolved'.body
         /\ PlayersOnDisplay' = PlayersOf(resolved'.body)

\* C22, amended: after the response of a call that no later refresh has
\* superseded, the players on display are those of that response; the
\* response of a superseded call changes nothing on display.  Once every call
\* has settled, the display is that of the call issued last.
C22_LatestRequestDisplayed == [][C22_Step]_vars

\* A superseded call has answered with another player than the one on
\* display, which the later call had brought.
C22_Witness ==
  /\ LeafletReady
  /\ resolved.endpoint = "players"
  /\ resolved.ok
  /\ resolved.superseded
  /\ PlayersOnDisplay # {}
  /\ PlayersOnDisplay # PlayersOf(resolved.body)
  /\ inflight["players"] = NoFetch

-----------------------------------------------------------------------------
(* C23 *)

\* An attempt of a $fetch call failed in the step.
FetchFailedStep ==
  \/ \E e \in Endpoints, which \in Calls :
       inflight[e][which] > 0 /\ inflight'[e][which] = inflight[e][which] + 1
  \/ resolved'.endpoint # "none" /\ ~resolved'.ok

C23_Step ==
  /\ lastOp' = "tick" => \A e \in Endpoints : sent'[e] = 1
  /\ FetchFailedStep => \A e \in Endpoints : sent'[e] = 0
  /\ lifecycle = "unmounted" => \A e \in Endpoints : sent'[e] = 0

\* C23: a tick of the interval sends exactly one request to each endpoint,
\* a step in which a fetch fails sends none, and nothing is sent once the
\* page is unmounted.
C23_NoRetryOfItsOwn == [][C23_Step]_vars

-----------------------------------------------------------------------------
(* C24 *)

\* n is o at another position: the same category, sub-type and label.
MovedTo(o, n) ==
  /\ o.type = n.type /\ o.pal = n.pal /\ o.localized_name = n.localized_name
  /\ o.x # n.x \/ o.y # n.y

C24_Step ==
  (variant = "LG" /\ LeafletReady /\ lastOp' = "setMapObjects") =>
    /\ ops'.updates = 0
    /\ \A marker \in ObjectMarkerIds :
         (marker \in DOMAIN markerAttrs /\ marker \in DOMAIN markerAttrs')
           => markerAttrs'[marker].latlng = markerAttrs[marker].latlng
    /\ \A o \in Range(mapObjects), n \in Range(mapObjects') :
         (MovedTo(o, n) /\ o \notin Range(mapObjects') /\ n \notin Range(mapObjects)
            /\ getMapObjectKey(o) \in DOMAIN objectMarkerByKey)
           => /\ getMapObjectKey(o) \notin DOMAIN objectMarkerByKey'
              /\ getMapObjectKey(n) \in DOMAIN objectMarkerByKey'
              /\ ops'.deletes >= 1
              /\ ops'.creates >= 1
              /\ \A old \in ObjectMarkerIds, new \in ObjectMarkerIds :
                   (/\ objectMarkerByKey[getMapObjectKey(o)].marker = old
                    /\ objectMarkerByKey'[getMapObjectKey(n)].marker = new)
                     => /\ new # old
                        /\ Holders(old)' = {}
                        /\ old \notin DOMAIN markerAttrs'
                        /\ new \notin DOMAIN markerAttrs
                        /\ markerAttrs'[new].latlng = worldToLeaflet(n.x, n.y)
                        /\ markerAttrs'[new].source = n

-----------------------------------------------------------------------------
(* C25 *)

\* What a surface consists of and carries: the map or viewer, its layers,
\* markers and overlays, the pointer tracking.
SurfaceState ==
  << map, viewer, viewerSource, playersLayer, objectLayersByType, objectMarkerByKey,
     playerMarkerByUserId, objectMarkers, playerMarkers, layerGroups, mapLayers,
     markerAttrs, overlays, mouseTracker, openHandler, isReady >>

C25_Step ==
  /\ (lifecycle = "unmounted" /\ lastOp' \in {"import", "onMounted"})
       => /\ SurfaceState' = SurfaceState
          /\ ops' = NoOps
          /\ ~thrown'
  /\ lifecycle' = "unmounted"
       => /\ Surface' = NULL
          /\ mapLayers' = {}
          /\ overlays' = << >>
          /\ mouseTracker' # "tracking"

\* C25: when the component is torn down while onMounted awaits the library,
\* the continuation of onMounted builds no map or viewer, starts no pointer
\* tracking and draws nothing (it only stores the library handle); and
\* however the load and the teardown interleave, a torn-down instance has no
\* surface, nothing on it and no pointer tracking.
C25_NoSurfaceAfterTeardown == [][C25_Step]_vars

\* Players had arrived, the component was torn down during the load, and the
\* load has completed since: the handle is stored and there is no surface.
C25_Witness ==
  /\ lifecycle = "unmounted"
  /\ lastOp = "onMounted"
  /\ pc = "done"
  /\ leaflet # NULL \/ osdLib # NULL
  /\ Surface = NULL
  /\ Len(players) = 2
  /\ markerAttrs = EmptyMap

-----------------------------------------------------------------------------
(* C27 *)

\* C27: two map objects get the same key only if they agree on type, x, y,
\* pal and localized_name (an absent field being the empty string).
C27_KeyIsInjective ==
  (coordArg.fn = "key" /\ coordResult.done) =>
    (coordResult.via = coordResult.value => coordArg.a = coordArg.b)

-----------------------------------------------------------------------------
(* C30 *)

\* C30: with the pointer at worldToLeaflet(x, y), the readout is
\* worldToMap(x, y).x and -worldToMap(x, y).y, the two numbers the popup of
\* a marker placed at (x, y) shows as its Map Coords.
C30_ReadoutIsMapCoords ==
  (coordArg.fn = "readout" /\ coordResult.done) =>
    /\ coordResult.value = Readout(coordResult.popup.x, coordResult.popup.y)
    /\ coordResult.popup.x = worldToMapQ(coordArg.x, coordArg.y).x
    /\ coordResult.popup.y = -(worldToMapQ(coordArg.x, coordArg.y).y)

\* A marker on the edge of its grid cell, south of the origin's row: the
\* readout over it is the cell the popup names.
C30_Witness ==
  /\ coordArg.fn = "readout"
  /\ coordResult.done
  /\ coordArg.x.d = 2
  /\ coordResult.popup.y < 0
  /\ coordResult.value = Readout(coordResult.popup.x, coordResult.popup.y)

-----------------------------------------------------------------------------
(* C28 *)

\* C28: no handler of a Leaflet implementation raises 'Leaflet not
\* initialized': whenever worldToLeaflet, getPlayerIcon or getObjectIcon is
\* called, from onMounted, a reconciler or focusPlayer, the library handle is
\* set.
C28_LeafletAlwaysInitialized ==
  variant \in {"LG", "KP"} => ~thrown

\* The focus button was clicked while the library was still loading and the
\* sidebar already listed a player: the handler returned at its map check.
C28_Witness ==
  /\ variant = "KP"
  /\ lastOp = "focusPlayer"
  /\ leaflet = NULL
  /\ map = NULL
  /\ Len(players) > 0
  /\ ~thrown

\* worldToLeaflet and getPlayerIcon ran in the continuation of onMounted,
\* for the players that had arrived before the library.
C28_WitnessOnMounted ==
  /\ variant \in {"LG", "KP"}
  /\ lastOp = "onMounted"
  /\ leaflet # NULL
  /\ ops.creates > 0
  /\ ~thrown

-----------------------------------------------------------------------------
(* C29 *)

\* What a user sees of an object marker: its category, its position and the
\* label of its icon and popup.
LabelOf(object) == [pal |-> object.pal, localized_name |-> object.localized_name]

ShownByKeyed(v) ==
  { [category |-> e.type, position |-> v.markerAttrs[e.marker].latlng,
     label |-> LabelOf(v.markerAttrs[e.marker].source)] :
      e \in { x \in Range(v.objectMarkerByKey) : x.marker \in v.mapLayers } }

ShownByRedraw(v) ==
  { [category |-> v.markerAttrs[marker].title,
     position |-> v.markerAttrs[marker].latlng,
     label |-> LabelOf(v.markerAttrs[marker].source)] :
      marker \in { x \in Range(v.objectMarkers) : x \in v.mapLayers } }

ShownExpected(v) ==
  { [category |-> object.type, position |-> worldToLeaflet(object.x, object.y),
     label |-> LabelOf(object)] :
      object \in { x \in Range(v.mapObjects) : x.type \in v.activeTypes } }

TwinReady == twin.on /\ pc = "done"

-----------------------------------------------------------------------------
(* C26 *)

\* C26: a category the user has unchecked, and that every snapshot since has
\* contained, is not in the Active-Type Set until the user checks it again.
C26_ToggledOffStaysOut ==
  twin.on => twin.toggledOff \cap activeTypes = {}

-----------------------------------------------------------------------------
(* C31 *)

\* Every fetch of the latest tick has ended and no earlier call is under way.
TickResolved ==
  /\ PageAlive
  /\ \A e \in Endpoints : outcome[e] \in {"ok", "failed"}
  /\ inflight = [e \in Endpoints |-> NoFetch]

\* C31: once all fetches of a poll tick have resolved, in any order,
\* errorMessage is non-null exactly if at least one fetch of that tick failed.
C31_ErrorIffTickFailed ==
  TickResolved =>
    (errorMessage # NULL <=> \E e \in Endpoints : outcome[e] = "failed")

====
